---- MODULE Spec2Model ----
(***************************************************************************)
(* Verification model of the knowledge-graph visualisation component       *)
(* (src/src/components/GraphVisualization.tsx) and of the collaborators it *)
(* observes (src/src/App.tsx).                                             *)
(*                                                                         *)
(* Strings are sequences of one-character strings so that toLowerCase,     *)
(* trim, split and includes are computed rather than assumed.  The React   *)
(* runtime is modelled as it schedules the component: a commit makes a new *)
(* state visible, then the effects whose dependencies changed run in       *)
(* declaration order against that committed state, their state updates are *)
(* staged and applied together by the next render (automatic batching,     *)
(* React 18 createRoot).                                                   *)
(***************************************************************************)
EXTENDS Integers, Sequences, FiniteSets, TLC

(***************************************************************************)
(* Bounds of the model.                                                    *)
(***************************************************************************)
\* longest search text enumerated by SpecSearch
MaxTextLen == 3
\* number of direct runs of the layout explored
MaxRuns == 2

\* largest pan offset (in pointer units, per drag direction) explored
MaxPan == 1

\* the number of query requests the chat issues in a behaviour
MaxSends == 3

(***************************************************************************)
(* Strings.                                                                *)
(***************************************************************************)
UpperCase ==
    <<"A", "B", "C", "D", "E", "F", "G", "H", "I", "J", "K", "L", "M",
      "N", "O", "P", "Q", "R", "S", "T", "U", "V", "W", "X", "Y", "Z">>

LowerCase ==
    <<"a", "b", "c", "d", "e", "f", "g", "h", "i", "j", "k", "l", "m",
      "n", "o", "p", "q", "r", "s", "t", "u", "v", "w", "x", "y", "z">>

EmptyString == << >>

\* the value undefined where the code expects a string: a property that the
\* record of the payload does not have (lines 70-71 and 77-78)
Undefined == <<"undefined">>

\* setAttribute(name, value): the value converted to a string
attributeString(value) ==
    IF value = Undefined
    THEN <<"u", "n", "d", "e", "f", "i", "n", "e", "d">>
    ELSE value

\* String.prototype.toLowerCase, character by character
toLowerChar(c) ==
    IF \E i \in 1..Len(UpperCase) : UpperCase[i] = c
    THEN LowerCase[CHOOSE i \in 1..Len(UpperCase) : UpperCase[i] = c]
    ELSE c

toLowerCase(s) == [i \in 1..Len(s) |-> toLowerChar(s[i])]

\* the white space String.prototype.trim strips (the part of it the model types)
IsWhiteSpace(c) == c \in {" ", "\t"}

RECURSIVE trimStart(_)
trimStart(s) ==
    IF s = EmptyString THEN EmptyString
    ELSE IF IsWhiteSpace(Head(s)) THEN trimStart(Tail(s))
    ELSE s

RECURSIVE trimEnd(_)
trimEnd(s) ==
    IF s = EmptyString THEN EmptyString
    ELSE IF IsWhiteSpace(s[Len(s)]) THEN trimEnd(SubSeq(s, 1, Len(s) - 1))
    ELSE s

trim(s) == trimEnd(trimStart(s))

\* String.prototype.split(sep) for a one-character separator: scans the
\* text left to right, cur is the piece being collected
RECURSIVE splitFrom(_, _, _)
splitFrom(s, sep, cur) ==
    IF s = EmptyString THEN <<cur>>
    ELSE IF Head(s) = sep THEN <<cur>> \o splitFrom(Tail(s), sep, EmptyString)
    ELSE splitFrom(Tail(s), sep, Append(cur, Head(s)))

split(s, sep) == splitFrom(s, sep, EmptyString)

\* String.prototype.includes: tries every start index from 0 upwards
RECURSIVE includesFrom(_, _, _)
includesFrom(s, t, k) ==
    IF k + Len(t) > Len(s) THEN FALSE
    ELSE IF SubSeq(s, k + 1, k + Len(t)) = t THEN TRUE
    ELSE includesFrom(s, t, k + 1)

includes(s, t) == includesFrom(s, t, 0)

Range(s) == {s[i] : i \in 1..Len(s)}

Min(a, b) == IF a <= b THEN a ELSE b

Max(a, b) == IF a >= b THEN a ELSE b

(***************************************************************************)
(* Graph data.  A node is [id, label, type], an edge [source, target]; the *)
(* description of a node and the weight and type of an edge are copied by  *)
(* the loader and read by nothing, they are left out.  A type is compared  *)
(* with literals only and stays a plain string.                            *)
(***************************************************************************)
Node(id, label, type) == [id |-> id, label |-> label, type |-> type]

Edge(source, target) == [source |-> source, target |-> target]

GraphData(nodes, edges) == [nodes |-> nodes, edges |-> edges]

\* useState<GraphData>({ nodes: [], edges: [] })
EmptyGraph == GraphData(<< >>, << >>)

ID_ALEX_CHEN ==
    <<"A", "L", "E", "X", " ", "C", "H", "E", "N">>

ID_UC_BERKELEY ==
    <<"U", "N", "I", "V", "E", "R", "S", "I", "T", "Y", " ", "O", "F", " ", "C", "A", "L", "I", "F", "O", "R", "N", "I", "A", ",", " ", "B", "E", "R", "K", "E", "L", "E", "Y">>

ID_TECHSTART ==
    <<"T", "E", "C", "H", "S", "T", "A", "R", "T", " ", "I", "N", "C", ".">>

ID_SARAH_JOHNSON ==
    <<"S", "A", "R", "A", "H", " ", "J", "O", "H", "N", "S", "O", "N">>

ID_META ==
    <<"M", "E", "T", "A">>

ID_GOOGLE ==
    <<"G", "O", "O", "G", "L", "E">>

ID_MICHAEL_RODRIGUEZ ==
    <<"M", "I", "C", "H", "A", "E", "L", " ", "R", "O", "D", "R", "I", "G", "U", "E", "Z">>

ID_STANFORD ==
    <<"S", "T", "A", "N", "F", "O", "R", "D", " ", "U", "N", "I", "V", "E", "R", "S", "I", "T", "Y">>

LABEL_ALEX_CHEN ==
    <<"A", "l", "e", "x", " ", "C", "h", "e", "n">>

LABEL_UC_BERKELEY ==
    <<"U", "C", " ", "B", "e", "r", "k", "e", "l", "e", "y">>

LABEL_TECHSTART ==
    <<"T", "e", "c", "h", "S", "t", "a", "r", "t", " ", "I", "n", "c", ".">>

LABEL_SARAH_JOHNSON ==
    <<"S", "a", "r", "a", "h", " ", "J", "o", "h", "n", "s", "o", "n">>

LABEL_META ==
    <<"M", "e", "t", "a">>

LABEL_GOOGLE ==
    <<"G", "o", "o", "g", "l", "e">>

LABEL_MICHAEL_RODRIGUEZ ==
    <<"M", "i", "c", "h", "a", "e", "l", " ", "R", "o", "d", "r", "i", "g", "u", "e", "z">>

LABEL_STANFORD ==
    <<"S", "t", "a", "n", "f", "o", "r", "d", " ", "U", "n", "i", "v", "e", "r", "s", "i", "t", "y">>

\* the built-in fixture graph of loadMockData
mockData ==
    GraphData(
      << Node(ID_ALEX_CHEN, LABEL_ALEX_CHEN, "person"),
         Node(ID_UC_BERKELEY, LABEL_UC_BERKELEY, "organization"),
         Node(ID_TECHSTART, LABEL_TECHSTART, "organization"),
         Node(ID_SARAH_JOHNSON, LABEL_SARAH_JOHNSON, "person"),
         Node(ID_META, LABEL_META, "organization"),
         Node(ID_GOOGLE, LABEL_GOOGLE, "organization"),
         Node(ID_MICHAEL_RODRIGUEZ, LABEL_MICHAEL_RODRIGUEZ, "person"),
         Node(ID_STANFORD, LABEL_STANFORD, "organization") >>,
      << Edge(ID_ALEX_CHEN, ID_UC_BERKELEY),
         Edge(ID_ALEX_CHEN, ID_TECHSTART),
         Edge(ID_SARAH_JOHNSON, ID_META),
         Edge(ID_SARAH_JOHNSON, ID_GOOGLE),
         Edge(ID_MICHAEL_RODRIGUEZ, ID_STANFORD),
         Edge(ID_MICHAEL_RODRIGUEZ, ID_GOOGLE) >>)

NodeIds(g) == {g.nodes[i].id : i \in 1..Len(g.nodes)}

(***************************************************************************)
(* The search effect (lines 156-196) as it computes its two sets.          *)
(***************************************************************************)
\* line 162: the pieces between commas, each trimmed
trimmedPieces(searchText) ==
    [i \in 1..Len(split(searchText, ",")) |-> trim(split(searchText, ",")[i])]

\* line 162: split on commas, trim each piece, drop the empty pieces
searchTerms(searchText) ==
    LET nonEmpty(term) == Len(term) > 0
    IN  SelectSeq(trimmedPieces(searchText), nonEmpty)

\* the predicate without its test of the id
nodeMatchesTerm_LabelOnly(node, term) ==
    includes(toLowerCase(node.label), toLowerCase(term))

\* lines 168-171: the filter predicate of one term
nodeMatchesTerm(node, term) ==
    \/ includes(toLowerCase(node.label), toLowerCase(term))
    \/ includes(toLowerCase(node.id), toLowerCase(term))

\* lines 167-171: the nodes that match one term, in node order
nodesMatching(nodes, term) ==
    LET matches(node) == nodeMatchesTerm(node, term)
    IN  SelectSeq(nodes, matches)

\* lines 167-172: their ids
termMatchingNodes(nodes, term) ==
    [i \in 1..Len(nodesMatching(nodes, term)) |-> nodesMatching(nodes, term)[i].id]

\* lines 165-175: the Set filled term by term
allMatchingNodes(nodes, terms) ==
    UNION {Range(termMatchingNodes(nodes, terms[i])) : i \in 1..Len(terms)}

\* an edge followed only from its target to its source
edgeNeighbours_TargetOnly(edge, nodeId) ==
    IF edge.target = nodeId THEN {edge.source} ELSE {}

\* an edge followed only from its source to its target
edgeNeighbours_SourceOnly(edge, nodeId) ==
    IF edge.source = nodeId THEN {edge.target} ELSE {}

\* lines 183-188: what one edge adds for one matched id
edgeNeighbours(edge, nodeId) ==
    (IF edge.source = nodeId THEN {edge.target} ELSE {})
      \cup (IF edge.target = nodeId THEN {edge.source} ELSE {})

\* lines 180-190: the Set filled matched id by matched id, edge by edge
adjacentNodes(matching, edges) ==
    UNION {edgeNeighbours(edges[j], nodeId) :
             j \in 1..Len(edges), nodeId \in matching}

\* lines 156-195: the two sets the effect hands to setInitiallyMatchingNodes
\* and setVisibleNodes for a search text and a graph
\* lines 169-170: label.toLowerCase() throws a TypeError when the node has no
\* label, and id.toLowerCase(), evaluated when the label does not contain
\* the term, when the node has no id
matchThrows(node, term) ==
    \/ node.label = Undefined
    \/ /\ node.id = Undefined
       /\ ~includes(toLowerCase(node.label), toLowerCase(term))

\* lines 157-175: the filter runs over every node for every term
searchThrows(searchText, g) ==
    /\ trim(searchText) # EmptyString
    /\ \E t \in 1..Len(searchTerms(searchText)) :
          \E i \in 1..Len(g.nodes) :
             matchThrows(g.nodes[i], searchTerms(searchText)[t])

searchEffectResult(searchText, g) ==
    IF trim(searchText) = EmptyString
    THEN [matching |-> {}, visible |-> {}]
    ELSE LET matching == allMatchingNodes(g.nodes, searchTerms(searchText))
         IN  [matching |-> matching,
              visible  |-> matching \cup adjacentNodes(matching, g.edges)]

(***************************************************************************)
(* applySimpleLayout (lines 391-472).  Math.random is a generator with     *)
(* hidden state: its outputs are read from a tape fixed at start-up, draw  *)
(* number k being tape[k mod length].  A draw is one of the values 0, 1/4, *)
(* 1/2, 3/4 (kept as the numerator), so that the angle is a whole number   *)
(* of quarter turns and every coordinate is an exact integer.              *)
(***************************************************************************)
RandValues == {0, 1, 2, 3}

RandDenominator == Cardinality(RandValues)

\* cosine and sine of k quarter turns
Cos4 == <<1, 0, -1, 0>>

Sin4 == <<0, 1, 0, -1>>

canvasWidth == 1200

canvasHeight == 800

minDistance == 80

maxAttempts_OneMore == 100 + 1

maxAttempts == 100

layoutPadding == 100

canvasMargin == 50

\* Math.random(): draw number k of the tape
random(tape, k) == tape[(k % Len(tape)) + 1]

\* lines 393-398: the count the Map holds for an id after all edges are added
RECURSIVE edgeCountOf(_, _)
edgeCountOf(edges, id) ==
    IF edges = << >> THEN 0
    ELSE (IF Head(edges).source = id THEN 1 ELSE 0)
         + (IF Head(edges).target = id THEN 1 ELSE 0)
         + edgeCountOf(Tail(edges), id)

\* lines 401-405: the comparator puts b before a when b has more edges;
\* Array.prototype.sort is stable, so an element is inserted after every
\* element that does not have fewer edges than it
RECURSIVE insertByCount(_, _, _)
insertByCount(sorted, node, edges) ==
    IF sorted = << >> THEN <<node>>
    ELSE IF edgeCountOf(edges, Head(sorted).id) < edgeCountOf(edges, node.id)
         THEN <<node>> \o sorted
         ELSE <<Head(sorted)>> \o insertByCount(Tail(sorted), node, edges)

RECURSIVE sortByCount(_, _, _)
sortByCount(sorted, rest, edges) ==
    IF rest = << >> THEN sorted
    ELSE sortByCount(insertByCount(sorted, Head(rest), edges), Tail(rest), edges)

sortedNodes(nodes, edges) == sortByCount(<< >>, nodes, edges)

\* line 449
positionKey(x, y) == <<x \div minDistance, y \div minDistance>>

\* lines 443-445 and 455-457: uniform over the padded canvas
paddedPosition(r1, r2, width, height) ==
    [x |-> layoutPadding + (r1 * (width - 2 * layoutPadding)) \div RandDenominator,
     y |-> layoutPadding + (r2 * (height - 2 * layoutPadding)) \div RandDenominator]

\* lines 420-446: one sampled position for a node with edgeCount edges;
\* r1 is the first draw of the attempt, r2 the second
tierPosition(edgeCount, r1, r2, width, height) ==
    LET centerX == width \div 2
        centerY == height \div 2
    IN  IF edgeCount >= 3
        THEN LET centerRadius == (Min(width, height) * 2) \div 10
                 radius == (r2 * centerRadius) \div RandDenominator
             IN  [x |-> centerX + radius * Cos4[r1 + 1],
                  y |-> centerY + radius * Sin4[r1 + 1]]
        ELSE IF edgeCount >= 1
        THEN LET innerRadius == (Min(width, height) * 25) \div 100
                 outerRadius == (Min(width, height) * 4) \div 10
                 radius == innerRadius
                           + (r2 * (outerRadius - innerRadius)) \div RandDenominator
             IN  [x |-> centerX + radius * Cos4[r1 + 1],
                  y |-> centerY + radius * Sin4[r1 + 1]]
        ELSE paddedPosition(r1, r2, width, height)

\* lines 420-449: the position sampled in pass number pass (from 0) of the
\* do-while loop, each pass making two calls of Math.random; draws counts
\* the calls made before the loop
sampledAt(edgeCount, tape, draws, pass, width, height) ==
    tierPosition(edgeCount, random(tape, draws + 2 * pass),
                 random(tape, draws + 2 * pass + 1), width, height)

\* line 451: the loop is left after pass number pass when the sampled cell
\* is free or the pass was the last one allowed
loopEndsAfter(edgeCount, usedPositions, tape, draws, pass, width, height) ==
    \/ pass + 1 >= maxAttempts
    \/ positionKey(sampledAt(edgeCount, tape, draws, pass, width, height).x,
                   sampledAt(edgeCount, tape, draws, pass, width, height).y)
         \notin usedPositions

\* the first pass after which the loop is left
lastPass(edgeCount, usedPositions, tape, draws, width, height) ==
    CHOOSE pass \in 0..(maxAttempts - 1) :
       /\ loopEndsAfter(edgeCount, usedPositions, tape, draws, pass, width, height)
       /\ \A earlier \in 0..(pass - 1) :
             ~loopEndsAfter(edgeCount, usedPositions, tape, draws, earlier,
                            width, height)

\* what the loop leaves in x, y, positionKey and attempts; sampled keeps the
\* position of the last pass for the record of the run
sampleOutcome(p, pass, draws) ==
    [x |-> p.x, y |-> p.y, key |-> positionKey(p.x, p.y),
     attempts |-> pass + 1, draws |-> draws + 2 * (pass + 1), fallback |-> FALSE,
     sampled |-> [x |-> p.x, y |-> p.y]]

sampleAtPass(edgeCount, tape, draws, pass, width, height) ==
    sampleOutcome(sampledAt(edgeCount, tape, draws, pass, width, height),
                  pass, draws)

\* lines 419-451: the do-while loop
samplePosition(edgeCount, usedPositions, tape, draws, width, height) ==
    sampleAtPass(edgeCount, tape, draws,
                 lastPass(edgeCount, usedPositions, tape, draws, width, height),
                 width, height)

\* lines 455-458: the fallback position p replaces the sampled one
fallbackPlacement(p, sampled) ==
    [x |-> p.x, y |-> p.y, key |-> positionKey(p.x, p.y),
     attempts |-> sampled.attempts, draws |-> sampled.draws + 2,
     fallback |-> TRUE, sampled |-> sampled.sampled]

\* line 454: the fallback is taken when the attempt budget is used up
afterSampling(sampled, tape, width, height) ==
    IF sampled.attempts >= maxAttempts
    THEN fallbackPlacement(
           paddedPosition(random(tape, sampled.draws),
                          random(tape, sampled.draws + 1), width, height),
           sampled)
    ELSE sampled

\* lines 413-459: the position of one node
placeNode(edgeCount, usedPositions, tape, draws, width, height) ==
    afterSampling(samplePosition(edgeCount, usedPositions, tape, draws,
                                 width, height),
                  tape, width, height)

\* a push that leaves the sampled coordinate as it is
clampToCanvas_Unclamped(v, dimension) == v

\* lines 464-468
clampToCanvas(v, dimension) == Max(canvasMargin, Min(dimension - canvasMargin, v))

\* a push that does not mark the cell of the node as used
addPlacement_NoMark(acc, node, pl, width, height) ==
    [positionedNodes |->
        Append(acc.positionedNodes,
               [id |-> node.id, label |-> node.label, type |-> node.type,
                x |-> clampToCanvas(pl.x, width),
                y |-> clampToCanvas(pl.y, height)]),
     usedPositions |-> acc.usedPositions,
     draws |-> pl.draws,
     placements |-> Append(acc.placements, pl)]

\* lines 461-468: the cell is marked used and the node pushed; acc carries
\* positionedNodes, usedPositions, the number of draws made and, for each
\* node, how it was placed
addPlacement(acc, node, pl, width, height) ==
    [positionedNodes |->
        Append(acc.positionedNodes,
               [id |-> node.id, label |-> node.label, type |-> node.type,
                x |-> clampToCanvas(pl.x, width),
                y |-> clampToCanvas(pl.y, height)]),
     usedPositions |-> acc.usedPositions \cup {pl.key},
     draws |-> pl.draws,
     placements |-> Append(acc.placements, pl)]

\* lines 412-469: the forEach over the sorted nodes
RECURSIVE positionNodes(_, _, _, _, _, _)
positionNodes(sorted, edges, tape, acc, width, height) ==
    IF sorted = << >> THEN acc
    ELSE positionNodes(
           Tail(sorted), edges, tape,
           addPlacement(acc, Head(sorted),
                        placeNode(edgeCountOf(edges, Head(sorted).id),
                                  acc.usedPositions, tape, acc.draws,
                                  width, height),
                        width, height),
           width, height)

\* the layout of a graph when the generator is at draw number draws
applySimpleLayout(nodes, edges, width, height, tape, draws) ==
    positionNodes(sortedNodes(nodes, edges), edges, tape,
                  [positionedNodes |-> << >>, usedPositions |-> {},
                   draws |-> draws, placements |-> << >>],
                  width, height)

(***************************************************************************)
(* The drawn scene.  The svg element is [drawn, width, height, transform,  *)
(* children]: drawn says that the #graph-content group exists, transform   *)
(* is the group's transform attribute (NoTransform until it is set) and    *)
(* children are the group's elements in document order.  An opacity that   *)
(* was never set has the value NoAttribute.                                *)
(***************************************************************************)
NoAttribute == "unset"

NoTransform == << >>

\* <svg ref={svgRef}> as React mounts it
EmptySvg ==
    [drawn |-> FALSE, width |-> 0, height |-> 0,
     transform |-> NoTransform, children |-> << >>]

\* nodes.find(n => n.id === id): index of the first such node, 0 for undefined
RECURSIVE findFrom(_, _, _)
findFrom(nodes, id, i) ==
    IF i > Len(nodes) THEN 0
    ELSE IF nodes[i].id = id THEN i
    ELSE findFrom(nodes, id, i + 1)

find(nodes, id) == findFrom(nodes, id, 1)

\* the condition with a test that skips self-loops
edgeIsDrawn_NoSelfLoops(sourceIndex, targetIndex) ==
    sourceIndex # 0 /\ targetIndex # 0 /\ sourceIndex # targetIndex

\* line 255: the condition under which an edge gets a line
edgeIsDrawn(sourceIndex, targetIndex) == sourceIndex # 0 /\ targetIndex # 0

\* lines 257-278: the line of an edge between two positioned nodes
edgeLine(edge, sourceNode, targetNode) ==
    LET person == sourceNode.type = "person" \/ targetNode.type = "person"
    IN  [class |-> "graph-edge",
         x1 |-> sourceNode.x, y1 |-> sourceNode.y,
         x2 |-> targetNode.x, y2 |-> targetNode.y,
         stroke |-> IF person THEN "#4CAF50" ELSE "#999",
         strokeWidth |-> IF person THEN 2 ELSE 1,
         opacity |-> "0.6",
         source |-> attributeString(edge.source),
         target |-> attributeString(edge.target)]

\* lines 252-279: what one edge adds to the group, si and ti being what the
\* two finds return
drawEdge(edge, nodes, si, ti) ==
    IF edgeIsDrawn(si, ti)
    THEN <<edgeLine(edge, nodes[si], nodes[ti])>>
    ELSE << >>

\* lines 251-280: the lines of the edges, in edge order
RECURSIVE drawEdges(_, _)
drawEdges(edges, nodes) ==
    IF edges = << >> THEN << >>
    ELSE drawEdge(Head(edges), nodes, find(nodes, Head(edges).source),
                  find(nodes, Head(edges).target))
         \o drawEdges(Tail(edges), nodes)

\* lines 291-294
nodeRadius(type) ==
    IF type = "person" THEN 14
    ELSE IF type = "organization" THEN 12
    ELSE IF type = "technology" THEN 11
    ELSE 10

\* lines 298-301
nodeColor(type) ==
    IF type = "person" THEN "#4CAF50"
    ELSE IF type = "organization" THEN "#2196F3"
    ELSE IF type = "technology" THEN "#9C27B0"
    ELSE "#FF9800"

\* lines 304 and 381
nodeStroke(dark) == IF dark THEN "#000" ELSE "#fff"

\* lines 317 and 387
labelFill(dark) == IF dark THEN "#fff" ELSE "#333"

\* line 322
maxLabelLength(type) == IF type = "person" THEN 20 ELSE 15

labelText_CutsAtLimit(node) ==
    LET maxLength == maxLabelLength(node.type)
    IN  IF Len(node.label) >= maxLength
        THEN SubSeq(node.label, 1, maxLength) \o <<".", ".", ".">>
        ELSE node.label

\* lines 323-324
labelText(node) ==
    LET maxLength == maxLabelLength(node.type)
    IN  IF Len(node.label) > maxLength
        THEN SubSeq(node.label, 1, maxLength) \o <<".", ".", ".">>
        ELSE node.label

\* lines 286-309
nodeCircle(node, dark) ==
    [class |-> "graph-node",
     cx |-> node.x, cy |-> node.y, r |-> nodeRadius(node.type),
     fill |-> nodeColor(node.type), stroke |-> nodeStroke(dark),
     strokeWidth |-> 2, opacity |-> NoAttribute,
     nodeId |-> attributeString(node.id)]

\* lines 312-325
nodeLabel(node, dark) ==
    [class |-> "graph-label",
     x |-> node.x, y |-> node.y + nodeRadius(node.type) + 15,
     fontSize |-> IF node.type = "person" THEN 10 ELSE 9,
     fill |-> labelFill(dark),
     fontWeight |-> IF node.type = "person" THEN "bold" ELSE "normal",
     opacity |-> NoAttribute, nodeId |-> attributeString(node.id),
     textContent |-> labelText(node)]

\* lines 285-326: a circle and then a label for each node, in layout order
RECURSIVE drawNodes(_, _)
drawNodes(nodes, dark) ==
    IF nodes = << >> THEN << >>
    ELSE <<nodeCircle(Head(nodes), dark), nodeLabel(Head(nodes), dark)>>
         \o drawNodes(Tail(nodes), dark)

\* lines 234-244 and 249-326: the scene built around a layout
sceneOf(g, dark, layout) ==
    [svg |-> [drawn |-> TRUE, width |-> canvasWidth, height |-> canvasHeight,
              transform |-> NoTransform,
              children |-> drawEdges(g.edges, layout.positionedNodes)
                           \o drawNodes(layout.positionedNodes, dark)],
     draws |-> layout.draws,
     layout |-> layout]

\* line 323: node.label.length throws a TypeError when a node has no label
drawGraphThrows(g) ==
    \E i \in 1..Len(g.nodes) : g.nodes[i].label = Undefined

\* lines 230-327: the scene drawGraph builds from the committed graphData and
\* isDarkMode, with the generator at draw number draws
drawGraph(g, dark, tape, draws) ==
    sceneOf(g, dark,
            applySimpleLayout(g.nodes, g.edges, canvasWidth, canvasHeight,
                              tape, draws))

\* an attribute value read by getAttribute is truthy when it is not empty
Truthy(attr) == attr # EmptyString

\* the opacity without the test for an empty search text
nodeOpacity_NoEmptyCheck(searchText, visibleNodes, nodeId) ==
    IF nodeId \in visibleNodes THEN "1" ELSE "0"

\* lines 340 and 351: the opacity of a node or label whose id is nodeId
nodeOpacity(searchText, visibleNodes, nodeId) ==
    IF trim(searchText) = EmptyString \/ nodeId \in visibleNodes THEN "1" ELSE "0"

\* an edge shown as soon as one of its endpoints is visible
edgeOpacity_EitherEndpoint(searchText, visibleNodes, source, target) ==
    IF trim(searchText) = EmptyString
       \/ (source \in visibleNodes \/ target \in visibleNodes)
    THEN "0.6" ELSE "0"

\* line 365: the opacity of an edge
edgeOpacity(searchText, visibleNodes, source, target) ==
    IF trim(searchText) = EmptyString
       \/ (source \in visibleNodes /\ target \in visibleNodes)
    THEN "0.6" ELSE "0"

\* lines 329-372: updateNodeVisibility on one element
visibilityOf(el, searchText, visibleNodes) ==
    IF el.class = "graph-edge"
    THEN IF Truthy(el.source) /\ Truthy(el.target)
         THEN [el EXCEPT !.opacity =
                  edgeOpacity(searchText, visibleNodes, el.source, el.target)]
         ELSE el
    ELSE IF Truthy(el.nodeId)
         THEN [el EXCEPT !.opacity = nodeOpacity(searchText, visibleNodes, el.nodeId)]
         ELSE el

\* a filter that takes the hidden elements out of the document
updateNodeVisibility_RemovesHidden(svg, searchText, visibleNodes) ==
    LET shown(el) == visibilityOf(el, searchText, visibleNodes).opacity # "0"
    IN  [svg EXCEPT !.children = SelectSeq(svg.children, shown)]

updateNodeVisibility(svg, searchText, visibleNodes) ==
    [svg EXCEPT !.children =
        [i \in 1..Len(svg.children) |->
            visibilityOf(svg.children[i], searchText, visibleNodes)]]

\* a theme update that writes the circle's fill instead of its stroke
themeOf_FillsCircles(el, dark) ==
    IF el.class = "graph-node" THEN [el EXCEPT !.fill = nodeStroke(dark)]
    ELSE IF el.class = "graph-label" THEN [el EXCEPT !.fill = labelFill(dark)]
    ELSE el

\* lines 374-389: updateThemeColors on one element
themeOf(el, dark) ==
    IF el.class = "graph-node" THEN [el EXCEPT !.stroke = nodeStroke(dark)]
    ELSE IF el.class = "graph-label" THEN [el EXCEPT !.fill = labelFill(dark)]
    ELSE el

updateThemeColors(svg, dark) ==
    [svg EXCEPT !.children =
        [i \in 1..Len(svg.children) |-> themeOf(svg.children[i], dark)]]

\* line 549: the node count after "Showing:"
showingNodes(visibleNodes) == Cardinality(visibleNodes)

\* lines 549-551: the edge count after "Showing:"
showingEdges(edges, visibleNodes) ==
    Cardinality({k \in 1..Len(edges) :
                    /\ edges[k].source \in visibleNodes
                    /\ edges[k].target \in visibleNodes})

\* lines 204-205: the transform attribute written on the group
transformString(transform) ==
    <<"translate", transform.x, transform.y, "scale", transform.scale>>

(***************************************************************************)
(* Inputs.                                                                 *)
(***************************************************************************)
Str_A == <<"A">>
Str_P == <<"P">>
Str_BB == <<"B", "B">>
Str_R == <<"R">>
Str_S == <<"S">>
Str_Z == <<"Z">>
Str_ab == <<"a", "b">>
Str_q == <<"q">>
Str_b_a == <<"b", " ", "a">>
Str_s == <<"s">>
Str_Hub == <<"H", "u", "b">>
Str_Alex == <<"A", "l", "e", "x">>
Str_Alex_Google == <<"A", "l", "e", "x", ",", " ", "G", "o", "o", "g", "l", "e">>
Str_Space == <<" ">>
Str_Comma == <<",">>
Str_LongLabel ==
    <<"A", " ", "v", "e", "r", "y", " ", "l", "o", "n", "g", " ",
      "l", "a", "b", "e", "l", " ", "x", "y", "z", "w">>

\* a fetched graph with a node of every type and every tier (Hub and S have
\* three edge ends, P, BB and R one, A none), a path P - S - BB of two hops,
\* a self-loop on Hub and a dangling edge R -> Z
SmallGraph ==
    GraphData(
      << Node(Str_P, Str_ab, "person"),
         Node(Str_BB, Str_q, "organization"),
         Node(Str_R, Str_b_a, "technology"),
         Node(Str_S, Str_s, "undefined"),
         Node(Str_A, Str_LongLabel, "person"),
         Node(Str_Hub, Str_Hub, "organization") >>,
      << Edge(Str_P, Str_S),
         Edge(Str_S, Str_BB),
         Edge(Str_R, Str_Z),
         Edge(Str_Hub, Str_S),
         Edge(Str_Hub, Str_Hub) >>)

\* a fetched graph without dangling edges
PathGraph ==
    GraphData(
      << Node(Str_P, Str_ab, "person"),
         Node(Str_S, Str_s, "organization"),
         Node(Str_BB, Str_q, "other") >>,
      << Edge(Str_P, Str_S), Edge(Str_BB, Str_S) >>)

\* a response body after response.json(): the arrays it carries
Payload(hasNodes, hasEdges, g) ==
    [hasNodes |-> hasNodes, hasEdges |-> hasEdges, nodes |-> g.nodes, edges |-> g.edges]

\* the bodies the backend answers with in the scene specification
ScenePayloads ==
    { Payload(TRUE, TRUE, SmallGraph),
      Payload(TRUE, TRUE, EmptyGraph),
      Payload(FALSE, TRUE, EmptyGraph),
      Payload(TRUE, FALSE, GraphData(PathGraph.nodes, << >>)) }

\* the bodies the backend answers with in the search specification
SearchPayloads ==
    { Payload(TRUE, TRUE, SmallGraph), Payload(TRUE, TRUE, PathGraph) }

\* the texts typed into the search field in the scene specification
SceneTexts ==
    { EmptyString, Str_Space, Str_Alex, Str_Alex_Google, Str_ab, Str_Comma }

\* the texts typed into the search field in the search specification: every
\* text of at most MaxTextLen characters over a small alphabet
SearchAlphabet == {"a", "B", ",", " "}

SearchTexts ==
    UNION {[1..n -> SearchAlphabet] : n \in 0..MaxTextLen}

\* outputs of the random generator
SceneTapes == { <<1, 2, 3>>, <<0, 3, 2, 1, 1>> }

\* pointer positions of mouse events, [x |-> clientX, y |-> clientY]
PointerPositions == { [x |-> 0, y |-> 0], [x |-> 1, y |-> 2] }

(***************************************************************************)
(* State.                                                                  *)
(***************************************************************************)
VARIABLES
    graphData,               \* useState, line 25
    loading,                 \* line 26
    transform,               \* line 27
    isDragging,              \* line 28
    dragStart,               \* line 29
    searchText,              \* line 30
    visibleNodes,            \* line 31
    initiallyMatchingNodes,  \* line 32
    isLayoutCalculated,      \* line 33
    isDarkMode,              \* line 34
    svg,                     \* the element behind svgRef and what is drawn in it
    bodyDark,                \* document.body carries the class dark-mode
    observing,               \* the MutationObserver is connected
    observerPending,         \* a mutation record waits for the observer callback
    loadPc,                  \* position of loadGraphData
    loadOutcome,             \* how the fetch of loadGraphData settled
    rngTape,                 \* outputs of Math.random
    rngDraws,                \* number of the next draw, modulo the tape length
    queue,                   \* effects of the last commit still to run
    staged,                  \* state updates made by effects, not yet rendered
    drawCount,               \* executions of drawGraph
    layoutCount,             \* executions of applySimpleLayout
    dragOrigin,              \* pointer position and transform at the pointer-down of the drag
    recoloured,              \* updateThemeColors has changed a colour of the scene
    uncaught,                \* the error that left an effect uncaught, if any
    layoutRuns,              \* the layouts computed by direct runs of applySimpleLayout
    voiceChat                \* the VoiceChat component: state, rendered closure, requests

vars ==
    <<graphData, loading, transform, isDragging, dragStart, searchText,
      visibleNodes, initiallyMatchingNodes, isLayoutCalculated, isDarkMode,
      svg, bodyDark, observing, observerPending, loadPc, loadOutcome, rngTape,
      rngDraws, queue, staged, drawCount, layoutCount, dragOrigin, recoloured,
      uncaught, layoutRuns, voiceChat>>

\* the effects in declaration order (lines 36, 41, 134, 142, 149, 156, 199)
EffectOrder ==
    <<"load", "observe", "layout", "theme", "visibility", "search", "transform">>

\* the dependency arrays with isDarkMode forgotten in the one of line 146
EffectDeps_ThemeOnce ==
    [load |-> {},
     observe |-> {},
     layout |-> {"graphData", "isLayoutCalculated"},
     theme |-> {"isLayoutCalculated"},
     visibility |-> {"visibleNodes", "isLayoutCalculated"},
     search |-> {"searchText", "graphData"},
     transform |-> {"transform"}]

\* the dependency arrays with visibleNodes forgotten in the one of line 153
EffectDeps_VisibilityOnce ==
    [load |-> {},
     observe |-> {},
     layout |-> {"graphData", "isLayoutCalculated"},
     theme |-> {"isDarkMode", "isLayoutCalculated"},
     visibility |-> {"isLayoutCalculated"},
     search |-> {"searchText", "graphData"},
     transform |-> {"transform"}]

\* the dependency arrays (lines 38, 54, 139, 146, 153, 196, 208)
EffectDeps ==
    [load |-> {},
     observe |-> {},
     layout |-> {"graphData", "isLayoutCalculated"},
     theme |-> {"isDarkMode", "isLayoutCalculated"},
     visibility |-> {"visibleNodes", "isLayoutCalculated"},
     search |-> {"searchText", "graphData"},
     transform |-> {"transform"}]

\* the effects React runs after a commit in which the state in changed changed
EffectsFor(changed) ==
    LET runs(e) == EffectDeps[e] \cap changed # {}
    IN  SelectSeq(EffectOrder, runs)

\* outside a drag: no pointer-down is remembered
NoDrag ==
    [down |-> [x |-> 0, y |-> 0], pan |-> [x |-> 0, y |-> 0, scale |-> 1]]

\* no error has left an effect or a handler uncaught
NoError == "none"

NoStaged ==
    [names |-> {}, isLayoutCalculated |-> FALSE, isDarkMode |-> FALSE,
     visibleNodes |-> {}, initiallyMatchingNodes |-> {}]

\* no effect is left to run and no update is left to render: the component
\* waits for the next event
Quiescent == queue = << >> /\ staged.names = {}

\* the next task of the event loop may run: pending microtasks ran first
Idle == Quiescent /\ ~observerPending /\ uncaught = NoError

\* svgRef.current is set while the <svg> is rendered (lines 474-480, 543)
svgMounted == ~loading

(***************************************************************************)
(* VoiceChat.  The component state is transcript, sending and messages.    *)
(* rendered holds what the handlers of the last render captured; staged    *)
(* holds the updates made after an await, which React applies in a later   *)
(* render; inFlight holds the queries of the requests that have not        *)
(* settled, requests counts the calls of fetch, and refused records that   *)
(* a send was invoked during a request and returned at line 56.            *)
(***************************************************************************)
NoStagedChat == [messages |-> << >>, names |-> {}]

\* lines 19-22
InitialVoiceChat ==
    [transcript |-> EmptyString, sending |-> FALSE, messages |-> << >>,
     rendered |-> [transcript |-> EmptyString, sending |-> FALSE],
     staged |-> NoStagedChat, inFlight |-> << >>, requests |-> 0,
     refused |-> FALSE]

\* a render: the staged updates are applied when flush says so, and the
\* handlers capture the state of this render
renderChat(vc, flush) ==
    LET messages == IF flush THEN vc.messages \o vc.staged.messages
                    ELSE vc.messages
        sending == IF flush /\ "sending" \in vc.staged.names THEN FALSE
                   ELSE vc.sending
    IN  [vc EXCEPT !.messages = messages,
                   !.sending = sending,
                   !.staged = IF flush THEN NoStagedChat ELSE @,
                   !.rendered = [transcript |-> vc.transcript, sending |-> sending]]

\* a send that does not look at sending
sendIssues_IgnoresSending(vc) ==
    trim(vc.rendered.transcript) # EmptyString

\* lines 55-56: send goes on when the captured transcript has text and the
\* captured sending is false
sendIssues(vc) ==
    trim(vc.rendered.transcript) # EmptyString /\ ~vc.rendered.sending

\* lines 54-74: send up to the await of fetch
send(vc) ==
    IF sendIssues(vc)
    THEN [vc EXCEPT !.sending = TRUE,
                    !.messages = Append(@, [role |-> "user",
                                            text |-> trim(vc.rendered.transcript)]),
                    !.transcript = EmptyString,
                    !.inFlight = Append(@, trim(vc.rendered.transcript)),
                    !.requests = @ + 1]
    ELSE [vc EXCEPT !.refused = @ \/ vc.inFlight # << >>]

Init ==
    /\ graphData = EmptyGraph
    /\ loading = TRUE
    /\ transform = [x |-> 0, y |-> 0, scale |-> 1]
    /\ isDragging = FALSE
    /\ dragStart = [x |-> 0, y |-> 0]
    /\ searchText = EmptyString
    /\ visibleNodes = {}
    /\ initiallyMatchingNodes = {}
    /\ isLayoutCalculated = FALSE
    /\ isDarkMode = FALSE
    /\ svg = EmptySvg
    /\ bodyDark \in BOOLEAN
    /\ observing = FALSE
    /\ observerPending = FALSE
    /\ loadPc = "mount"
    /\ loadOutcome = "pending"
    /\ rngTape \in SceneTapes
    /\ rngDraws = 0
    /\ queue = EffectOrder
    /\ staged = NoStaged
    /\ drawCount = 0
    /\ layoutCount = 0
    /\ dragOrigin = NoDrag
    /\ recoloured = FALSE
    /\ uncaught = NoError
    /\ layoutRuns = << >>
    /\ voiceChat = InitialVoiceChat

(***************************************************************************)
(* Effects.  An effect runs when it is at the head of the queue; it reads  *)
(* the committed state and stages its state updates.                       *)
(***************************************************************************)
EffectRuns(e) == queue # << >> /\ Head(queue) = e

Stage(update) ==
    [names |-> staged.names \cup update.names,
     isLayoutCalculated |->
        IF "isLayoutCalculated" \in update.names
        THEN update.isLayoutCalculated ELSE staged.isLayoutCalculated,
     isDarkMode |->
        IF "isDarkMode" \in update.names
        THEN update.isDarkMode ELSE staged.isDarkMode,
     visibleNodes |->
        IF "visibleNodes" \in update.names
        THEN update.visibleNodes ELSE staged.visibleNodes,
     initiallyMatchingNodes |->
        IF "initiallyMatchingNodes" \in update.names
        THEN update.initiallyMatchingNodes ELSE staged.initiallyMatchingNodes]

\* lines 36-38 and 56-61: loadGraphData up to its first await; setLoading(true)
\* leaves loading as it is
LoadEffect ==
    /\ EffectRuns("load")
    /\ loadPc' = "fetch"
    /\ UNCHANGED loadOutcome
    /\ queue' = Tail(queue)
    /\ UNCHANGED <<graphData, loading, transform, isDragging, dragStart,
                   searchText, visibleNodes, initiallyMatchingNodes,
                   isLayoutCalculated, isDarkMode, svg, bodyDark, observing,
                   observerPending, rngTape, voiceChat, rngDraws, staged, drawCount,
                   layoutCount>>
    /\ UNCHANGED <<dragOrigin, recoloured, uncaught, layoutRuns>>

\* lines 41-54: checkDarkMode once, then the observer is connected
ObserveEffect ==
    /\ EffectRuns("observe")
    /\ staged' = Stage([NoStaged EXCEPT !.names = {"isDarkMode"},
                                        !.isDarkMode = bodyDark])
    /\ observing' = TRUE
    /\ queue' = Tail(queue)
    /\ UNCHANGED <<graphData, loading, transform, isDragging, dragStart,
                   searchText, visibleNodes, initiallyMatchingNodes,
                   isLayoutCalculated, isDarkMode, svg, bodyDark,
                   observerPending, loadPc, loadOutcome, rngTape, voiceChat, rngDraws, drawCount,
                   layoutCount>>
    /\ UNCHANGED <<dragOrigin, recoloured, uncaught, layoutRuns>>

\* the condition without its isLayoutCalculated test
layoutEffectDraws_NoFlag(nodeCount, mounted, calculated) ==
    nodeCount > 0 /\ mounted

\* line 135: the condition under which the layout effect draws
layoutEffectDraws(nodeCount, mounted, calculated) ==
    nodeCount > 0 /\ mounted /\ ~calculated

\* React without an error boundary: an error thrown by an effect unmounts
\* the whole tree.  The svg leaves the document, the cleanup of line 53
\* disconnects the observer and no effect or handler of the component runs
\* again
Unmounted(error) ==
    /\ uncaught' = error
    /\ svg' = EmptySvg
    /\ queue' = << >>
    /\ staged' = NoStaged
    /\ observing' = FALSE

\* lines 247 and 323: the layout was computed before the label of a node
\* made the draw throw; line 137 is not reached
ThrowInDraw(d) ==
    /\ Unmounted("TypeError")
    /\ rngDraws' = d.draws % Len(rngTape)
    /\ drawCount' = drawCount + 1
    /\ layoutCount' = layoutCount + 1

\* lines 136-137: what a drawn scene d leaves behind
CommitDraw(d) ==
    /\ svg' = d.svg
    /\ rngDraws' = d.draws % Len(rngTape)
    /\ drawCount' = drawCount + 1
    /\ layoutCount' = layoutCount + 1
    /\ staged' = Stage([NoStaged EXCEPT !.names = {"isLayoutCalculated"},
                                        !.isLayoutCalculated = TRUE])

\* lines 134-139
LayoutEffect ==
    /\ EffectRuns("layout")
    /\ IF layoutEffectDraws(Len(graphData.nodes), svgMounted, isLayoutCalculated)
       THEN IF drawGraphThrows(graphData)
            THEN ThrowInDraw(drawGraph(graphData, isDarkMode, rngTape, rngDraws))
            ELSE /\ CommitDraw(drawGraph(graphData, isDarkMode, rngTape, rngDraws))
                 /\ queue' = Tail(queue)
                 /\ UNCHANGED <<uncaught, observing>>
       ELSE /\ queue' = Tail(queue)
            /\ UNCHANGED <<svg, rngDraws, drawCount, layoutCount, staged,
                           uncaught, observing>>
    /\ UNCHANGED <<graphData, loading, transform, isDragging, dragStart,
                   searchText, visibleNodes, initiallyMatchingNodes,
                   isLayoutCalculated, isDarkMode, bodyDark,
                   observerPending, loadPc, loadOutcome, rngTape, voiceChat>>
    /\ UNCHANGED <<dragOrigin, recoloured, layoutRuns>>

\* lines 142-146
ThemeEffect ==
    /\ EffectRuns("theme")
    /\ IF isLayoutCalculated /\ svgMounted
       THEN /\ svg' = updateThemeColors(svg, isDarkMode)
            /\ recoloured' = (recoloured \/ svg' # svg)
       ELSE UNCHANGED <<svg, recoloured>>
    /\ queue' = Tail(queue)
    /\ UNCHANGED <<graphData, loading, transform, isDragging, dragStart,
                   searchText, visibleNodes, initiallyMatchingNodes,
                   isLayoutCalculated, isDarkMode, bodyDark, observing,
                   observerPending, loadPc, loadOutcome, rngTape, voiceChat, rngDraws, staged,
                   drawCount, layoutCount>>
    /\ UNCHANGED <<dragOrigin, uncaught, layoutRuns>>

\* lines 149-153
VisibilityEffect ==
    /\ EffectRuns("visibility")
    /\ IF isLayoutCalculated /\ svgMounted
       THEN svg' = updateNodeVisibility(svg, searchText, visibleNodes)
       ELSE UNCHANGED svg
    /\ queue' = Tail(queue)
    /\ UNCHANGED <<graphData, loading, transform, isDragging, dragStart,
                   searchText, visibleNodes, initiallyMatchingNodes,
                   isLayoutCalculated, isDarkMode, bodyDark, observing,
                   observerPending, loadPc, loadOutcome, rngTape, voiceChat, rngDraws, staged,
                   drawCount, layoutCount>>
    /\ UNCHANGED <<dragOrigin, recoloured, uncaught, layoutRuns>>

\* lines 158-159, 177 and 194: the two sets are staged
StageSearch(r) ==
    staged' = Stage([NoStaged EXCEPT
                       !.names = {"visibleNodes", "initiallyMatchingNodes"},
                       !.visibleNodes = r.visible,
                       !.initiallyMatchingNodes = r.matching])

\* lines 156-196
SearchEffect ==
    /\ EffectRuns("search")
    /\ IF searchThrows(searchText, graphData)
       THEN Unmounted("TypeError")
       ELSE /\ StageSearch(searchEffectResult(searchText, graphData))
            /\ queue' = Tail(queue)
            /\ UNCHANGED <<svg, uncaught, observing>>
    /\ UNCHANGED <<graphData, loading, transform, isDragging, dragStart,
                   searchText, visibleNodes, initiallyMatchingNodes,
                   isLayoutCalculated, isDarkMode, bodyDark,
                   observerPending, loadPc, loadOutcome, rngTape, voiceChat, rngDraws, drawCount,
                   layoutCount>>
    /\ UNCHANGED <<dragOrigin, recoloured, layoutRuns>>

\* a pan written into the coordinates of the elements, the group left alone
setGroupTransform_Baked(el, t) ==
    [el EXCEPT !.children =
        [i \in 1..Len(el.children) |->
            IF el.children[i].class = "graph-edge"
            THEN [el.children[i] EXCEPT !.x1 = @ + t.x, !.y1 = @ + t.y,
                                        !.x2 = @ + t.x, !.y2 = @ + t.y]
            ELSE IF el.children[i].class = "graph-node"
            THEN [el.children[i] EXCEPT !.cx = @ + t.x, !.cy = @ + t.y]
            ELSE [el.children[i] EXCEPT !.x = @ + t.x, !.y = @ + t.y]]]

\* lines 204-205: the transform attribute of the group is set
setGroupTransform(el, t) == [el EXCEPT !.transform = transformString(t)]

\* lines 199-208: querySelector('#graph-content') finds the group once drawn
TransformEffect ==
    /\ EffectRuns("transform")
    /\ IF svgMounted /\ svg.drawn
       THEN svg' = setGroupTransform(svg, transform)
       ELSE UNCHANGED svg
    /\ queue' = Tail(queue)
    /\ UNCHANGED <<graphData, loading, transform, isDragging, dragStart,
                   searchText, visibleNodes, initiallyMatchingNodes,
                   isLayoutCalculated, isDarkMode, bodyDark, observing,
                   observerPending, loadPc, loadOutcome, rngTape, voiceChat, rngDraws, staged,
                   drawCount, layoutCount>>
    /\ UNCHANGED <<dragOrigin, recoloured, uncaught, layoutRuns>>

\* the state names whose staged value differs from the committed one: a
\* boolean by value, a Set by identity (every staged Set is a new object)
StagedChanges ==
    {n \in staged.names :
        \/ n = "isLayoutCalculated" /\ staged.isLayoutCalculated # isLayoutCalculated
        \/ n = "isDarkMode" /\ staged.isDarkMode # isDarkMode
        \/ n \in {"visibleNodes", "initiallyMatchingNodes"}}

\* the render React makes once the effects of a commit have run: the staged
\* updates become the committed state and the effects that depend on what
\* changed are queued
Render ==
    /\ queue = << >>
    /\ staged.names # {}
    /\ isLayoutCalculated' =
          IF "isLayoutCalculated" \in staged.names
          THEN staged.isLayoutCalculated ELSE isLayoutCalculated
    /\ isDarkMode' =
          IF "isDarkMode" \in staged.names THEN staged.isDarkMode ELSE isDarkMode
    /\ visibleNodes' =
          IF "visibleNodes" \in staged.names THEN staged.visibleNodes ELSE visibleNodes
    /\ initiallyMatchingNodes' =
          IF "initiallyMatchingNodes" \in staged.names
          THEN staged.initiallyMatchingNodes ELSE initiallyMatchingNodes
    /\ queue' = EffectsFor(StagedChanges)
    /\ staged' = NoStaged
    /\ UNCHANGED <<graphData, loading, transform, isDragging, dragStart,
                   searchText, svg, bodyDark, observing, observerPending,
                   loadPc, loadOutcome, rngTape, voiceChat, rngDraws, drawCount, layoutCount>>
    /\ UNCHANGED <<dragOrigin, recoloured, uncaught, layoutRuns>>

(***************************************************************************)
(* loadGraphData after its awaits (lines 61-105).  setGraphData and the    *)
(* setLoading(false) of the finally block are made in one continuation and *)
(* are rendered together.                                                  *)
(***************************************************************************)
FinishLoad(g) ==
    /\ graphData' = g
    /\ loading' = FALSE
    /\ loadPc' = "done"
    /\ queue' = EffectsFor({"graphData", "loading"})
    /\ UNCHANGED <<transform, isDragging, dragStart, searchText, visibleNodes,
                   initiallyMatchingNodes, isLayoutCalculated, isDarkMode, svg,
                   bodyDark, observing, observerPending, rngTape, voiceChat, rngDraws,
                   staged, drawCount, layoutCount>>
    /\ UNCHANGED <<dragOrigin, recoloured, uncaught, layoutRuns>>

\* a catch block that only logs
loadMockData_Skipped == FinishLoad(graphData)

\* lines 102 and 108-130: the catch block
loadMockData == FinishLoad(mockData)

\* line 61: fetch rejects (network failure)
FetchRejects ==
    /\ Idle
    /\ loadPc = "fetch"
    /\ loadOutcome' = "rejected"
    /\ loadMockData

\* lines 62-64: a response whose ok is false
ResponseNotOk ==
    /\ Idle
    /\ loadPc = "fetch"
    /\ loadOutcome' = "not ok"
    /\ loadMockData

\* lines 62-66: a response whose ok is true, response.json() is awaited
ResponseOk ==
    /\ Idle
    /\ loadPc = "fetch"
    /\ loadPc' = "json"
    /\ UNCHANGED <<loadOutcome, graphData, loading, transform, isDragging, dragStart,
                   searchText, visibleNodes, initiallyMatchingNodes,
                   isLayoutCalculated, isDarkMode, svg, bodyDark, observing,
                   observerPending, rngTape, voiceChat, rngDraws, queue, staged,
                   drawCount, layoutCount>>
    /\ UNCHANGED <<dragOrigin, recoloured, uncaught, layoutRuns>>

\* line 66: response.json() rejects
JsonParseFails ==
    /\ Idle
    /\ loadPc = "json"
    /\ loadOutcome' = "parse error"
    /\ loadMockData

\* lines 69-83: data.nodes.map and data.edges.map throw a TypeError when the
\* array is missing; otherwise the mapped arrays become graphData
JsonParsed(data) ==
    /\ Idle
    /\ loadPc = "json"
    /\ IF data.hasNodes /\ data.hasEdges
       THEN /\ loadOutcome' = "loaded"
            /\ FinishLoad(GraphData(data.nodes, data.edges))
       ELSE /\ loadOutcome' = "no arrays"
            /\ loadMockData

(***************************************************************************)
(* Events.                                                                 *)
(***************************************************************************)
\* line 491: onChange of the search field, rendered once loading is over
SetSearchText(text) ==
    /\ Idle
    /\ ~loading
    /\ text # searchText
    /\ searchText' = text
    /\ queue' = EffectsFor({"searchText"})
    /\ UNCHANGED <<graphData, loading, transform, isDragging, dragStart,
                   visibleNodes, initiallyMatchingNodes, isLayoutCalculated,
                   isDarkMode, svg, bodyDark, observing, observerPending,
                   loadPc, loadOutcome, rngTape, voiceChat, rngDraws, staged, drawCount, layoutCount>>
    /\ UNCHANGED <<dragOrigin, recoloured, uncaught, layoutRuns>>

\* App.tsx lines 40-51: toggleDarkMode and the effect that moves the class
\* of document.body; a connected observer gets a mutation record
toggleDarkMode ==
    /\ Idle
    /\ bodyDark' = ~bodyDark
    /\ observerPending' = observing
    /\ UNCHANGED <<graphData, loading, transform, isDragging, dragStart,
                   searchText, visibleNodes, initiallyMatchingNodes,
                   isLayoutCalculated, isDarkMode, svg, observing, loadPc, loadOutcome,
                   rngTape, voiceChat, rngDraws, queue, staged, drawCount, layoutCount>>
    /\ UNCHANGED <<dragOrigin, recoloured, uncaught, layoutRuns>>

\* lines 42-44 and 50: the observer callback
checkDarkMode ==
    /\ Quiescent
    /\ observerPending
    /\ observerPending' = FALSE
    /\ isDarkMode' = bodyDark
    /\ queue' = IF isDarkMode # bodyDark THEN EffectsFor({"isDarkMode"}) ELSE << >>
    /\ UNCHANGED <<graphData, loading, transform, isDragging, dragStart,
                   searchText, visibleNodes, initiallyMatchingNodes,
                   isLayoutCalculated, svg, bodyDark, observing, loadPc, loadOutcome,
                   rngTape, voiceChat, rngDraws, staged, drawCount, layoutCount>>
    /\ UNCHANGED <<dragOrigin, recoloured, uncaught, layoutRuns>>

\* lines 212-213: the updates of handleMouseDown
startDrag(e) ==
    /\ isDragging' = TRUE
    /\ dragStart' = [x |-> e.x - transform.x, y |-> e.y - transform.y]
    /\ dragOrigin' = [down |-> e, pan |-> transform]
    /\ UNCHANGED <<graphData, loading, transform, searchText, visibleNodes,
                   initiallyMatchingNodes, isLayoutCalculated, isDarkMode, svg,
                   bodyDark, observing, observerPending, loadPc, loadOutcome, rngTape, voiceChat,
                   rngDraws, queue, staged, drawCount, layoutCount>>
    /\ UNCHANGED <<recoloured, uncaught, layoutRuns>>

\* lines 211-214
handleMouseDown(e) ==
    /\ Idle
    /\ ~loading
    /\ startDrag(e)

\* lines 142-146 run as a passive effect.  The commit that the observer
\* callback (lines 42-44 and 50) causes does not come from a user
\* interaction, so React defers its effects until the browser has painted:
\* exactly the theme effect is pending and nothing is staged
ThemeEffectDeferred ==
    /\ queue = <<"theme">>
    /\ staged.names = {}
    /\ uncaught = NoError

\* lines 211-214, for a pointer-down dispatched in that interval: the handler
\* runs first, and React runs the pending effect before it renders the
\* handler's updates
handleMouseDownBeforeEffects(e) ==
    /\ ThemeEffectDeferred
    /\ ~loading
    /\ startDrag(e)

\* the transform of a move that forgets the offset captured at pointer-down
draggedTransform_NoCapture(e, start, current) ==
    [x |-> e.x, y |-> e.y, scale |-> current.scale]

\* a move that also zooms
draggedTransform_Zooms(e, start, current) ==
    [x |-> e.x - start.x, y |-> e.y - start.y, scale |-> current.scale + 1]

\* lines 218-222: the transform a move sets during a drag
draggedTransform(e, start, current) ==
    [x |-> e.x - start.x, y |-> e.y - start.y, scale |-> current.scale]

\* the pan offsets the model explores
WithinPan(t) ==
    /\ t.x >= -MaxPan /\ t.x <= MaxPan
    /\ t.y >= -2 * MaxPan /\ t.y <= 2 * MaxPan

\* the test of a move with the drag flag ignored
moveApplies_Always(dragging) == TRUE

\* line 217: a move changes the transform only during a drag
moveApplies(dragging) == dragging

\* lines 216-224
handleMouseMove(e) ==
    /\ Idle
    /\ ~loading
    /\ IF moveApplies(isDragging)
       THEN /\ WithinPan(draggedTransform(e, dragStart, transform))
            /\ transform' = draggedTransform(e, dragStart, transform)
            /\ queue' = EffectsFor({"transform"})
       ELSE UNCHANGED <<transform, queue>>
    /\ UNCHANGED <<graphData, loading, isDragging, dragStart, searchText,
                   visibleNodes, initiallyMatchingNodes, isLayoutCalculated,
                   isDarkMode, svg, bodyDark, observing, observerPending,
                   loadPc, loadOutcome, rngTape, voiceChat, rngDraws, staged, drawCount, layoutCount>>
    /\ UNCHANGED <<dragOrigin, recoloured, uncaught, layoutRuns>>

\* lines 226-228, bound to onMouseUp and onMouseLeave (lines 539-540)
handleMouseUp ==
    /\ Idle
    /\ ~loading
    /\ isDragging' = FALSE
    /\ dragOrigin' = NoDrag
    /\ UNCHANGED <<graphData, loading, transform, dragStart, searchText,
                   visibleNodes, initiallyMatchingNodes, isLayoutCalculated,
                   isDarkMode, svg, bodyDark, observing, observerPending,
                   loadPc, loadOutcome, rngTape, voiceChat, rngDraws, queue, staged, drawCount,
                   layoutCount>>
    /\ UNCHANGED <<recoloured, uncaught, layoutRuns>>

(***************************************************************************)
(* Specifications.                                                         *)
(***************************************************************************)
Effects ==
    \/ LoadEffect
    \/ ObserveEffect
    \/ LayoutEffect
    \/ ThemeEffect
    \/ VisibilityEffect
    \/ SearchEffect
    \/ TransformEffect
    \/ Render

\* the scene: every fetch outcome, theme toggles, panning and a few texts
Next ==
    \/ Effects
    \/ FetchRejects
    \/ ResponseNotOk
    \/ ResponseOk
    \/ JsonParseFails
    \/ \E data \in ScenePayloads : JsonParsed(data)
    \/ \E text \in SceneTexts : SetSearchText(text)
    \/ toggleDarkMode
    \/ checkDarkMode
    \/ \E e \in PointerPositions : handleMouseDown(e)
    \/ \E e \in PointerPositions : handleMouseMove(e)
    \/ handleMouseUp

Spec == Init /\ [][Next]_vars

\* the search filter: two fetched graphs and every short search text
NextSearch ==
    \/ Effects
    \/ ResponseOk
    \/ \E data \in SearchPayloads : JsonParsed(data)
    \/ \E text \in SearchTexts : SetSearchText(text)

SpecSearch == Init /\ [][NextSearch]_vars

(***************************************************************************)
(* Payloads whose records lack a property: a node without a label, a node  *)
(* without an id and an edge without a target, edges without an endpoint.  *)
(***************************************************************************)
NoLabelGraph ==
    GraphData(<<Node(Str_P, Str_ab, "person"),
                Node(Str_BB, Undefined, "organization")>>,
              <<Edge(Str_P, Str_BB)>>)

NoIdGraph ==
    GraphData(<<Node(Str_P, Str_ab, "person"),
                Node(Undefined, Str_q, "organization")>>,
              <<Edge(Str_P, Undefined)>>)

NoEndpointGraph ==
    GraphData(<<Node(Str_P, Str_ab, "person"),
                Node(Str_BB, Str_q, "organization")>>,
              <<Edge(Str_P, Str_BB), Edge(Str_P, Undefined),
                Edge(Undefined, Str_BB)>>)

MalformedPayloads ==
    { Payload(TRUE, TRUE, g) :
         g \in {NoLabelGraph, NoIdGraph, NoEndpointGraph, PathGraph} }

MalformedTexts == {Str_A, Str_q}

NextMalformed ==
    \/ Effects
    \/ ResponseOk
    \/ \E data \in MalformedPayloads : JsonParsed(data)
    \/ \E text \in MalformedTexts : SetSearchText(text)
    \/ toggleDarkMode
    \/ checkDarkMode
    \/ \E e \in PointerPositions : handleMouseDown(e)
    \/ \E e \in PointerPositions : handleMouseMove(e)
    \/ handleMouseUp

SpecMalformed == Init /\ [][NextMalformed]_vars

\* labels of every length around the two limits of lines 322-324, of distinct
\* characters so that a cut at the wrong place shows
LabelLetters ==
    <<"a", "b", "c", "d", "e", "f", "g", "h", "i", "j", "k",
      "l", "m", "n", "o", "p", "q", "r", "s", "t", "u", "v">>

LabelOfLength(n) == SubSeq(LabelLetters, 1, n)

BoundaryLabelGraph ==
    GraphData(
      << Node(Str_P, LabelOfLength(20), "person"),
         Node(Str_BB, LabelOfLength(21), "person"),
         Node(Str_R, LabelOfLength(15), "organization"),
         Node(Str_S, LabelOfLength(16), "technology"),
         Node(Str_A, LabelOfLength(16), "person"),
         Node(Str_Hub, LabelOfLength(20), "other") >>,
      << Edge(Str_P, Str_S), Edge(Str_Hub, Str_S) >>)

LabelPayloads ==
    { Payload(TRUE, TRUE, g) : g \in {BoundaryLabelGraph, SmallGraph} }

LabelTexts == {Str_q, Str_Comma}

NextLabels ==
    \/ Effects
    \/ ResponseOk
    \/ \E data \in LabelPayloads : JsonParsed(data)
    \/ \E text \in LabelTexts : SetSearchText(text)
    \/ toggleDarkMode
    \/ checkDarkMode

SpecLabels == Init /\ [][NextLabels]_vars

\* the theme toggle with a pointer-down that can arrive before the deferred
\* theme effect, over the fixture and one search text
NextDeferred ==
    \/ Effects
    \/ FetchRejects
    \/ SetSearchText(Str_Alex)
    \/ toggleDarkMode
    \/ checkDarkMode
    \/ \E e \in PointerPositions : handleMouseDown(e)
    \/ \E e \in PointerPositions : handleMouseDownBeforeEffects(e)
    \/ \E e \in PointerPositions : handleMouseMove(e)
    \/ handleMouseUp

SpecDeferred == Init /\ [][NextDeferred]_vars

\* a render or an effect that React has scheduled for the drawn scene
EffectsOfDrawnScene == svg.drawn /\ Effects

\* the same events under the scheduling of the browser and of React once
\* the scene is drawn: a queued MutationObserver callback is delivered and
\* every scheduled render and effect runs
SpecThemeLive ==
    /\ Init
    /\ [][NextDeferred]_vars
    /\ WF_vars(checkDarkMode)
    /\ WF_vars(EffectsOfDrawnScene)

(***************************************************************************)
(* applySimpleLayout on its own: a graph, a generator and canvas sizes.    *)
(* drawGraph passes 1200 by 800 (lines 236-237 and 247), where no sampled  *)
(* coordinate is within 50 of the border; on the second canvas the middle  *)
(* ring crosses that margin.  Its sizes keep the coordinates integers.     *)
(***************************************************************************)
LayoutCanvases ==
    { [width |-> canvasWidth, height |-> canvasHeight],
      [width |-> 400, height |-> 320] }

\* a graph in which P, of two edges, comes before Hub, of a self-loop and
\* one more edge
LoopGraph ==
    GraphData(
      << Node(Str_P, Str_ab, "person"),
         Node(Str_Hub, Str_Hub, "organization"),
         Node(Str_S, Str_s, "technology"),
         Node(Str_BB, Str_q, "other") >>,
      << Edge(Str_P, Str_S), Edge(Str_P, Str_BB),
         Edge(Str_Hub, Str_Hub), Edge(Str_Hub, Str_S) >>)

LayoutGraphs == {SmallGraph, PathGraph, LoopGraph, mockData, EmptyGraph}

\* a generator that returns the pair 0, 0 a hundred times and then the pair
\* 1/4, 0: the second node of a tier samples the cell of the first node in
\* its attempts 1 to 99 and a free cell in attempt 100
LastAttemptTape ==
    [k \in 1..(2 * maxAttempts + 2) |-> IF k = 2 * maxAttempts + 1 THEN 1 ELSE 0]

\* a generator whose first two attempts give the same angle and the radii
\* 2/4 and 3/4 of the ring
AdjacentCellTape == <<0, 2, 0, 3>>

\* the generator: the tapes of the scene, every tape of two values, on
\* which every attempt for a node samples the same position, and the two
\* tapes above
LayoutTapes ==
    SceneTapes \cup {<<a, b>> : a, b \in RandValues}
       \cup {LastAttemptTape, AdjacentCellTape}

InitLayout ==
    /\ graphData \in LayoutGraphs
    /\ rngTape \in LayoutTapes
    /\ loading = FALSE
    /\ transform = [x |-> 0, y |-> 0, scale |-> 1]
    /\ isDragging = FALSE
    /\ dragStart = [x |-> 0, y |-> 0]
    /\ searchText = EmptyString
    /\ visibleNodes = {}
    /\ initiallyMatchingNodes = {}
    /\ isLayoutCalculated = FALSE
    /\ isDarkMode = FALSE
    /\ svg = EmptySvg
    /\ bodyDark = FALSE
    /\ observing = FALSE
    /\ observerPending = FALSE
    /\ loadPc = "done"
    /\ loadOutcome = "loaded"
    /\ rngDraws = 0
    /\ queue = << >>
    /\ staged = NoStaged
    /\ drawCount = 0
    /\ layoutCount = 0
    /\ dragOrigin = NoDrag
    /\ recoloured = FALSE
    /\ uncaught = NoError
    /\ layoutRuns = << >>
    /\ voiceChat = InitialVoiceChat

\* what a run of the layout leaves: the returned nodes, how each was placed,
\* and the generator advanced by the draws made
RecordRun(canvas, layout) ==
    /\ layoutRuns' = Append(layoutRuns,
                            [canvas |-> canvas, startDraws |-> rngDraws,
                             positionedNodes |-> layout.positionedNodes,
                             placements |-> layout.placements])
    /\ rngDraws' = layout.draws % Len(rngTape)
    /\ layoutCount' = layoutCount + 1

\* lines 391-472: one call applySimpleLayout(nodes, edges, width, height)
RunLayout(canvas) ==
    /\ Len(layoutRuns) < MaxRuns
    /\ RecordRun(canvas,
                 applySimpleLayout(graphData.nodes, graphData.edges,
                                   canvas.width, canvas.height, rngTape, rngDraws))
    /\ UNCHANGED <<graphData, loading, transform, isDragging, dragStart,
                   searchText, visibleNodes, initiallyMatchingNodes,
                   isLayoutCalculated, isDarkMode, svg, bodyDark, observing,
                   observerPending, loadPc, loadOutcome, rngTape, voiceChat, queue,
                   staged, drawCount, dragOrigin, recoloured, uncaught>>

NextLayout == \E canvas \in LayoutCanvases : RunLayout(canvas)

SpecLayout == InitLayout /\ [][NextLayout]_vars

(***************************************************************************)
(* VoiceChat alone: typing, sending by click and by Enter, the outcomes    *)
(* of the request and the render after it.                                 *)
(***************************************************************************)
\* the texts typed into the textarea
VoiceTexts == {EmptyString, Str_Space, Str_q, Str_ab}

\* data?.answer, with "No answer." when the body has none (line 79)
VoiceAnswers == {"Alex Chen", "No answer."}

\* a step of VoiceChat leaves the graph component alone
VoiceChatStep(next) ==
    /\ voiceChat' = next
    /\ UNCHANGED <<graphData, loading, transform, isDragging, dragStart,
                   searchText, visibleNodes, initiallyMatchingNodes,
                   isLayoutCalculated, isDarkMode, svg, bodyDark, observing,
                   observerPending, loadPc, loadOutcome, rngTape, rngDraws,
                   queue, staged, drawCount, layoutCount, dragOrigin,
                   recoloured, uncaught, layoutRuns>>

\* a handler of a click or key event: React renders its updates before the
\* next event, together with the staged updates or before them
AfterEvent(vc) ==
    \E flush \in BOOLEAN :
       /\ flush => vc.staged.names # {}
       /\ VoiceChatStep(renderChat(vc, flush))

\* line 121
onChange(text) ==
    /\ text # voiceChat.rendered.transcript
    /\ AfterEvent([voiceChat EXCEPT !.transcript = text])

\* lines 101-106: Enter without Shift
onKeyDown ==
    /\ voiceChat.requests < MaxSends
    /\ IF sendIssues(voiceChat)
       THEN AfterEvent(send(voiceChat))
       ELSE VoiceChatStep(send(voiceChat))

\* line 114: a click on the Send button, which is disabled while the
\* rendered transcript is blank or the rendered sending is true
clickSend ==
    /\ voiceChat.requests < MaxSends
    /\ ~(trim(voiceChat.rendered.transcript) = EmptyString
           \/ voiceChat.rendered.sending)
    /\ IF sendIssues(voiceChat)
       THEN AfterEvent(send(voiceChat))
       ELSE VoiceChatStep(send(voiceChat))

\* the updates a settled request stages: one assistant message and
\* setSending(false) of the finally block (lines 80-83, 92-97)
settled(vc, text) ==
    [vc EXCEPT !.inFlight = Tail(@),
               !.staged = [messages |-> Append(@.messages,
                                               [role |-> "assistant",
                                                text |-> text]),
                           names |-> {"messages", "sending"}]]

\* lines 70-83 and 97: the response arrives and its body parses
ResponseArrives(answer) ==
    /\ voiceChat.inFlight # << >>
    /\ VoiceChatStep(settled(voiceChat, answer))

\* lines 90-97: fetch rejects or res.json() throws
RequestFails ==
    /\ voiceChat.inFlight # << >>
    /\ VoiceChatStep(settled(voiceChat, "Error contacting backend."))

\* the render React schedules for the updates made after the await
RenderVoiceChat ==
    /\ voiceChat.staged.names # {}
    /\ VoiceChatStep(renderChat(voiceChat, TRUE))

NextVoiceChat ==
    \/ \E text \in VoiceTexts : onChange(text)
    \/ clickSend
    \/ onKeyDown
    \/ \E answer \in VoiceAnswers : ResponseArrives(answer)
    \/ RequestFails
    \/ RenderVoiceChat

\* the graph component stays as mounted, with one generator
InitVoiceChat == Init /\ ~bodyDark /\ rngTape = <<1, 2, 3>>

SpecVoiceChat == InitVoiceChat /\ [][NextVoiceChat]_vars

(***************************************************************************)
(* Properties.                                                             *)
(***************************************************************************)
\* the drawn elements of one class, in document order
SceneElements(class) ==
    LET ofClass(el) == el.class = class
    IN  SelectSeq(svg.children, ofClass)

\* load, fetch and every effect and render that followed have finished
Loaded == loadPc = "done" /\ Quiescent

C2_FailedFetchFallsBack ==
    /\ (loadPc = "done"
          /\ loadOutcome \in {"rejected", "not ok", "parse error", "no arrays"})
       => /\ graphData = mockData
          /\ Len(graphData.nodes) = 8
          /\ Len(graphData.edges) = 6
    /\ loadPc = "done" => ~loading
    /\ loadOutcome # "pending" => loadPc = "done"

\* C2 witness: a body without its edges array was answered and the fixture
\* is shown
C2_Witness ==
    /\ loadPc = "done"
    /\ loadOutcome = "no arrays"
    /\ graphData = mockData
    /\ ~loading

\* C3: whatever the fetch outcome and payload, once the load and its
\* rendering have finished the layout is calculated and at least one node is
\* drawn
C3_SceneAlwaysDrawn ==
    Loaded => /\ isLayoutCalculated
              /\ Len(SceneElements("graph-node")) >= 1

\* the edges of the graph whose two endpoints are ids of nodes
EdgesBetweenNodes ==
    LET joins(edge) ==
          edge.source \in NodeIds(graphData) /\ edge.target \in NodeIds(graphData)
    IN  SelectSeq(graphData.edges, joins)

\* C4: the lines of the drawn scene are, edge by edge and in edge order, the
\* edges whose source and target are both ids of nodes; an edge with an
\* absent endpoint has no line, and every node has its circle and its label
C4_EdgesDrawnIffBothEndpoints ==
    svg.drawn =>
      /\ [i \in 1..Len(SceneElements("graph-edge")) |->
            Edge(SceneElements("graph-edge")[i].source,
                 SceneElements("graph-edge")[i].target)]
           = EdgesBetweenNodes
      /\ Len(SceneElements("graph-node")) = Len(graphData.nodes)
      /\ Len(SceneElements("graph-label")) = Len(graphData.nodes)
      /\ {SceneElements("graph-node")[i].nodeId :
             i \in 1..Len(SceneElements("graph-node"))} = NodeIds(graphData)

\* C4 witness: a drawn scene of a graph with a dangling edge, a self-loop and
\* edges between distinct nodes
C4_Witness ==
    /\ svg.drawn
    /\ \E i \in 1..Len(graphData.edges) :
          graphData.edges[i].target \notin NodeIds(graphData)
    /\ \E i \in 1..Len(graphData.edges) :
          graphData.edges[i].source = graphData.edges[i].target
    /\ Len(SceneElements("graph-edge")) = 4

\* C5: visibleIds holds ids of nodes of the node set only
C5_VisibleIdsAreNodeIds ==
    Quiescent => visibleNodes \subseteq NodeIds(graphData)

\* C6: when the trimmed search text is empty and rendering has finished, the
\* matched and the visible set are empty and, in a drawn scene, every node
\* and label has opacity 1 and every edge opacity 0.6
C6_EmptySearchShowsAll ==
    (Quiescent /\ trim(searchText) = EmptyString) =>
      /\ initiallyMatchingNodes = {}
      /\ visibleNodes = {}
      /\ svg.drawn =>
            \A i \in 1..Len(svg.children) :
               svg.children[i].opacity =
                  IF svg.children[i].class = "graph-edge" THEN "0.6" ELSE "1"

\* C6 witness: a drawn scene whose search field holds white space only,
\* which was typed after the draw
C6_Witness ==
    /\ Quiescent
    /\ svg.drawn
    /\ searchText = Str_Space
    /\ Len(SceneElements("graph-edge")) > 0

\* the ids of the nodes that share an edge with a node whose id is in ids
NodesSharingEdgeWith(ids) ==
    {graphData.nodes[n].id : n \in
       {n \in 1..Len(graphData.nodes) :
          \E j \in 1..Len(graphData.edges) :
             \/ /\ graphData.edges[j].source = graphData.nodes[n].id
                /\ graphData.edges[j].target \in ids
             \/ /\ graphData.edges[j].target = graphData.nodes[n].id
                /\ graphData.edges[j].source \in ids}}

\* C7: for a non-empty search text visibleIds is matchedIds together with
\* the nodes that share an edge with a matched node, and nothing else
C7_VisibleIsMatchedPlusNeighbours ==
    (Quiescent /\ trim(searchText) # EmptyString) =>
      visibleNodes = initiallyMatchingNodes \cup NodesSharingEdgeWith(initiallyMatchingNodes)

\* two characters are the same letter in either case, or the same character
SameLetter(c, d) ==
    \/ c = d
    \/ \E i \in 1..Len(UpperCase) : {c, d} = {UpperCase[i], LowerCase[i]}

\* term occurs in s, case ignored
OccursIgnoringCase(term, s) ==
    \E offset \in 0..(Len(s) - Len(term)) :
       \A k \in 1..Len(term) : SameLetter(term[k], s[offset + k])

\* the terms of a text: a term is text[a..b] where a..b has no comma, starts
\* and ends with a character that is not white space, and is separated from
\* the comma (or end of text) on either side by white space only
TermsOf(text) ==
    {SubSeq(text, a, b) : <<a, b>> \in
       {ab \in (1..Len(text)) \X (1..Len(text)) :
          /\ ab[1] <= ab[2]
          /\ \A k \in ab[1]..ab[2] : text[k] # ","
          /\ ~IsWhiteSpace(text[ab[1]])
          /\ ~IsWhiteSpace(text[ab[2]])
          /\ \E i \in 1..ab[1] :
                /\ i = 1 \/ text[i - 1] = ","
                /\ \A k \in i..(ab[1] - 1) : IsWhiteSpace(text[k])
          /\ \E j \in ab[2]..Len(text) :
                /\ j = Len(text) \/ text[j + 1] = ","
                /\ \A k \in (ab[2] + 1)..j : IsWhiteSpace(text[k])}}

\* C8: for a non-empty search text matchedIds is exactly the set of the ids
\* of the nodes in whose label or id some term of the text occurs, case
\* ignored
C8_MatchedIsTermSubstringMatch ==
    (Quiescent /\ trim(searchText) # EmptyString) =>
      initiallyMatchingNodes =
        {graphData.nodes[n].id : n \in
           {n \in 1..Len(graphData.nodes) :
              \E term \in TermsOf(searchText) :
                 \/ OccursIgnoringCase(term, graphData.nodes[n].label)
                 \/ OccursIgnoringCase(term, graphData.nodes[n].id)}}

\* C8 witness: a text with white space, a term in upper case and an empty
\* piece, which matches by id a node whose label does not match, and by
\* label nodes whose id does not match
C8_Witness ==
    /\ Quiescent
    /\ graphData = SmallGraph
    /\ searchText = <<" ", "B", ",">>
    /\ Str_BB \in initiallyMatchingNodes
    /\ Str_P \in initiallyMatchingNodes
    /\ Str_S \notin initiallyMatchingNodes

\* C9: over the fixture graph the text "Alex" matches ALEX CHEN alone and
\* makes it and its two neighbours visible
C9_AlexOverFixture ==
    (Quiescent /\ graphData = mockData /\ searchText = Str_Alex) =>
      /\ initiallyMatchingNodes = {ID_ALEX_CHEN}
      /\ visibleNodes = {ID_ALEX_CHEN, ID_TECHSTART, ID_UC_BERKELEY}
      /\ Cardinality(visibleNodes) = 3

\* C9 witness: the fixture is shown and "Alex" has been searched
C9_Witness ==
    /\ Quiescent
    /\ graphData = mockData
    /\ searchText = Str_Alex
    /\ isLayoutCalculated

\* a node id with the ids one edge away from it in the fixture
FixtureNeighbourhood(id) ==
    {id} \cup {mockData.edges[j].target : j \in
                 {j \in 1..Len(mockData.edges) : mockData.edges[j].source = id}}
         \cup {mockData.edges[j].source : j \in
                 {j \in 1..Len(mockData.edges) : mockData.edges[j].target = id}}

\* C10: over the fixture graph the text "Alex, Google" matches ALEX CHEN and
\* GOOGLE, and visibleIds is the union of the one-hop neighbourhoods of the
\* two: six nodes, none of them further than one edge from a matched node
C10_AlexGoogleOverFixture ==
    (Quiescent /\ graphData = mockData /\ searchText = Str_Alex_Google) =>
      /\ {ID_ALEX_CHEN, ID_GOOGLE} \subseteq initiallyMatchingNodes
      /\ visibleNodes =
           UNION {FixtureNeighbourhood(id) : id \in initiallyMatchingNodes}
      /\ visibleNodes =
           {ID_ALEX_CHEN, ID_UC_BERKELEY, ID_TECHSTART,
            ID_GOOGLE, ID_SARAH_JOHNSON, ID_MICHAEL_RODRIGUEZ}

\* C10 witness: the fixture is shown and "Alex, Google" has been searched
C10_Witness ==
    /\ Quiescent
    /\ graphData = mockData
    /\ searchText = Str_Alex_Google
    /\ isLayoutCalculated

\* C11: during a drag that began with a pointer-down at p0 while the pan was
\* (x0, y0), every pointer-move to p sets the pan to (x0, y0) + (p - p0) and
\* leaves the scale as it was, whatever moves and drags came before.
C11_MovePansByPointerDelta ==
    [][\A e \in PointerPositions :
          (isDragging /\ handleMouseMove(e)) =>
             /\ transform'.x = dragOrigin.pan.x + (e.x - dragOrigin.down.x)
             /\ transform'.y = dragOrigin.pan.y + (e.y - dragOrigin.down.y)
             /\ transform'.scale = transform.scale]_vars

\* a second drag, begun with a pan that an earlier drag left, has moved the
\* drawn scene
C11_Witness ==
    /\ svg.drawn
    /\ isDragging
    /\ dragOrigin.pan # NoDrag.pan
    /\ transform # dragOrigin.pan
    /\ svg.transform = transformString(transform)

\* C12: a pointer-down starts a drag and leaves the transform unchanged; a
\* pointer-up or pointer-leave ends the drag and leaves it unchanged; while
\* no drag is active no step, a pointer-move included, changes panX, panY or
\* scale.
C12_OnlyDraggedMovesPan ==
    [][/\ (\E e \in PointerPositions : handleMouseDown(e))
            => (isDragging' /\ transform' = transform)
       /\ handleMouseUp => (~isDragging' /\ transform' = transform)
       /\ ~isDragging => transform' = transform]_vars

\* a drag has moved the pan and has ended; the pan stays where it was left
C12_Witness ==
    /\ svg.drawn
    /\ ~isDragging
    /\ dragOrigin = NoDrag
    /\ transform # NoDrag.pan
    /\ svg.transform = transformString(transform)
    /\ Quiescent

\* the svg element apart from the elements of its group
SvgAttributes(el) == [el EXCEPT !.children = << >>]

\* the scene after differs from the scene before in theme colours at most:
\* the stroke of a circle, the fill of a label
OnlyThemeColoursDiffer(before, after) ==
    /\ SvgAttributes(after) = SvgAttributes(before)
    /\ Len(after.children) = Len(before.children)
    /\ \A i \in 1..Len(before.children) :
          IF before.children[i].class = "graph-node"
          THEN [before.children[i] EXCEPT !.stroke = after.children[i].stroke]
                  = after.children[i]
          ELSE IF before.children[i].class = "graph-label"
          THEN [before.children[i] EXCEPT !.fill = after.children[i].fill]
                  = after.children[i]
          ELSE before.children[i] = after.children[i]

\* C13: a run of updateThemeColors changes only the stroke of the circles
\* and the fill of the labels, to the colours of the current theme: every
\* cx, cy, x, y, line endpoint and opacity and the sequence of drawn elements
\* stay as they were.
C13_ThemeChangesOnlyColours ==
    [][(EffectRuns("theme") /\ queue' = Tail(queue) /\ isLayoutCalculated) =>
          /\ OnlyThemeColoursDiffer(svg, svg')
          /\ \A i \in 1..Len(svg'.children) :
                /\ svg'.children[i].class = "graph-node"
                      => svg'.children[i].stroke = nodeStroke(isDarkMode)
                /\ svg'.children[i].class = "graph-label"
                      => svg'.children[i].fill = labelFill(isDarkMode)]_vars

\* a toggle after the draw has recoloured a scene in which a search hides a
\* node and a pan has set the transform
C13_Witness ==
    /\ recoloured
    /\ Quiescent
    /\ svg.transform # NoTransform
    /\ \E i \in 1..Len(svg.children) :
          /\ svg.children[i].class = "graph-node"
          /\ svg.children[i].opacity = "0"
          /\ svg.children[i].stroke = nodeStroke(isDarkMode)

\* the scene after differs from the scene before in opacities at most
OnlyOpacityDiffers(before, after) ==
    /\ SvgAttributes(after) = SvgAttributes(before)
    /\ Len(after.children) = Len(before.children)
    /\ \A i \in 1..Len(before.children) :
          [before.children[i] EXCEPT !.opacity = after.children[i].opacity]
             = after.children[i]

\* C14: a run of updateNodeVisibility changes only the opacity of circles,
\* labels and lines: positions, colours and the sequence of drawn elements
\* stay as they were, and no layout is computed.
C14_VisibilityChangesOnlyOpacity ==
    [][(EffectRuns("visibility") /\ queue' = Tail(queue)) =>
          /\ OnlyOpacityDiffers(svg, svg')
          /\ layoutCount' = layoutCount
          /\ rngDraws' = rngDraws]_vars

\* a search has hidden one circle and one line and left another circle shown
C14_Witness ==
    /\ Quiescent
    /\ isLayoutCalculated
    /\ \E i, j, k \in 1..Len(svg.children) :
          /\ svg.children[i].class = "graph-node"
          /\ svg.children[i].opacity = "0"
          /\ svg.children[j].class = "graph-node"
          /\ svg.children[j].opacity = "1"
          /\ svg.children[k].class = "graph-edge"
          /\ svg.children[k].opacity = "0"

\* C15: every node the layout returns has 50 <= x <= width - 50 and
\* 50 <= y <= height - 50, whatever the graph and the outcomes of the random
\* sampling, the nodes placed by the fallback included.
C15_NodesWithinMargin ==
    \A r \in 1..Len(layoutRuns) :
       \A i \in 1..Len(layoutRuns[r].positionedNodes) :
          /\ 50 <= layoutRuns[r].positionedNodes[i].x
          /\ layoutRuns[r].positionedNodes[i].x <= layoutRuns[r].canvas.width - 50
          /\ 50 <= layoutRuns[r].positionedNodes[i].y
          /\ layoutRuns[r].positionedNodes[i].y <= layoutRuns[r].canvas.height - 50

\* one run has placed a node by the fallback and has returned another node
\* at a coordinate other than the sampled one
C15_Witness ==
    \E r \in 1..Len(layoutRuns) :
       /\ \E i \in 1..Len(layoutRuns[r].placements) :
             layoutRuns[r].placements[i].fallback
       /\ \E j \in 1..Len(layoutRuns[r].placements) :
             layoutRuns[r].placements[j].y # layoutRuns[r].positionedNodes[j].y

\* C16: two runs of the layout on the same graph and the same canvas, with
\* the same generator, return the same position for every node.
C16_LayoutRepeatable ==
    \A r1, r2 \in 1..Len(layoutRuns) :
       layoutRuns[r1].canvas = layoutRuns[r2].canvas
          => layoutRuns[r1].positionedNodes = layoutRuns[r2].positionedNodes

\* the records of a graph that have an id, or a source and a target
WellFormedRecords(g) ==
    LET hasId(node) == node.id # Undefined
        hasEnds(edge) == edge.source # Undefined /\ edge.target # Undefined
    IN  GraphData(SelectSeq(g.nodes, hasId), SelectSeq(g.edges, hasEnds))

\* C17: a payload with a node without an id, or an edge without a source or
\* a target, is loaded without that entry and with every well-formed entry:
\* the load is not aborted and the loaded graph holds exactly the well-formed
\* records of the payload.
C17_MalformedRecordsDropped ==
    loadPc = "done" =>
       /\ loadOutcome = "loaded"
       /\ \E data \in MalformedPayloads :
             graphData = WellFormedRecords(GraphData(data.nodes, data.edges))

\* C18: no error is left uncaught, whatever the payload and whatever load,
\* layout, draw, search, theme and pointer events follow.
C18_NoUncaughtError == uncaught = NoError

\* C19: updateThemeColors and updateNodeVisibility change the scene only
\* once drawGraph has completed and isLayoutCalculated is true, and they act
\* on the scene of that one draw: whenever the effects have run, every drawn
\* circle, label and line carries the colours of the current theme flag and
\* the opacity of the current search, also when the flag was set before the
\* draw.
C19_UpdatesFollowTheDraw ==
    /\ [][(queue # << >> /\ Head(queue) \in {"theme", "visibility"} /\ svg' # svg)
             => (isLayoutCalculated /\ svg.drawn /\ drawCount = 1)]_vars
    /\ [](Quiescent /\ isLayoutCalculated =>
            /\ svg.drawn /\ drawCount = 1
            /\ \A i \in 1..Len(svg.children) :
                  IF svg.children[i].class = "graph-edge"
                  THEN svg.children[i].opacity =
                          edgeOpacity(searchText, visibleNodes,
                                      svg.children[i].source, svg.children[i].target)
                  ELSE /\ svg.children[i].opacity =
                             nodeOpacity(searchText, visibleNodes,
                                         svg.children[i].nodeId)
                       /\ svg.children[i].class = "graph-node"
                             => svg.children[i].stroke = nodeStroke(isDarkMode)
                       /\ svg.children[i].class = "graph-label"
                             => svg.children[i].fill = labelFill(isDarkMode))

\* the dark flag was set before the draw: the scene was drawn dark, the
\* theme update found nothing to change and a later search is applied to it
C19_Witness ==
    /\ Quiescent
    /\ isLayoutCalculated
    /\ isDarkMode
    /\ ~recoloured
    /\ trim(searchText) # EmptyString
    /\ \E i \in 1..Len(svg.children) :
          /\ svg.children[i].class = "graph-node"
          /\ svg.children[i].stroke = nodeStroke(TRUE)
          /\ svg.children[i].opacity = "0"

\* the coordinates of the drawn elements, in document order
Coordinates(el) ==
    [i \in 1..Len(el.children) |->
        IF el.children[i].class = "graph-edge"
        THEN <<el.children[i].x1, el.children[i].y1,
               el.children[i].x2, el.children[i].y2>>
        ELSE IF el.children[i].class = "graph-node"
        THEN <<el.children[i].cx, el.children[i].cy>>
        ELSE <<el.children[i].x, el.children[i].y>>]

\* every circle is where the layout put its node
CirclesAt(el, positionedNodes) ==
    \A i \in 1..Len(el.children) :
       el.children[i].class = "graph-node" =>
          \E n \in 1..Len(positionedNodes) :
             /\ el.children[i].nodeId = positionedNodes[n].id
             /\ el.children[i].cx = positionedNodes[n].x
             /\ el.children[i].cy = positionedNodes[n].y

\* C20: whatever pans were made, the group #graph-content carries
\* translate(panX, panY) scale(scale) of the current transform, or no
\* transform attribute while the transform is the identity it started as,
\* and every coordinate of a circle, label or line is the one the layout
\* produced at the draw.
C20_PanOnlySetsGroupTransform ==
    /\ [](Quiescent /\ svg.drawn =>
            IF svg.transform = NoTransform
            THEN transform = [x |-> 0, y |-> 0, scale |-> 1]
            ELSE svg.transform =
                    <<"translate", transform.x, transform.y,
                      "scale", transform.scale>>)
    /\ [][/\ svg.drawn => Coordinates(svg') = Coordinates(svg)
          /\ (~svg.drawn /\ svg'.drawn) =>
                CirclesAt(svg', applySimpleLayout(
                                   graphData.nodes, graphData.edges, canvasWidth,
                                   canvasHeight, rngTape, rngDraws).positionedNodes)]_vars

\* two drags have panned the drawn scene
C20_Witness ==
    /\ Quiescent
    /\ Len(svg.children) > 0
    /\ transform.x # 0
    /\ svg.transform =
          <<"translate", transform.x, transform.y, "scale", transform.scale>>
    /\ dragOrigin.pan # NoDrag.pan

\* a step in which a handler of a user event or the theme toggle runs
EventHandled ==
    \/ \E e \in PointerPositions :
          \/ handleMouseDown(e)
          \/ handleMouseDownBeforeEffects(e)
          \/ handleMouseMove(e)
    \/ handleMouseUp
    \/ \E text \in SceneTexts : SetSearchText(text)
    \/ toggleDarkMode

\* visibleNodes, the drawn opacities and the drawn colours are those of the
\* current search text and theme flag
FilterAndSceneCurrent ==
    /\ visibleNodes = searchEffectResult(searchText, graphData).visible
    /\ \A i \in 1..Len(svg.children) :
          IF svg.children[i].class = "graph-edge"
          THEN svg.children[i].opacity =
                  edgeOpacity(searchText, visibleNodes,
                              svg.children[i].source, svg.children[i].target)
          ELSE /\ svg.children[i].opacity =
                     nodeOpacity(searchText, visibleNodes, svg.children[i].nodeId)
               /\ svg.children[i].class = "graph-node"
                     => svg.children[i].stroke = nodeStroke(isDarkMode)
               /\ svg.children[i].class = "graph-label"
                     => svg.children[i].fill = labelFill(isDarkMode)

\* C21: the filtering and the rendering that one event triggers are complete
\* before the next event is handled: every handler runs in a state where
\* visibleNodes and the drawn opacities are those of the current search text
\* and the drawn colours those of the current theme flag.
C21_EventsSeeCurrentScene ==
    [][(svg.drawn /\ EventHandled) => FilterAndSceneCurrent]_vars

\* C22: in the drawn scene every line of an edge comes before every circle
\* and every circle before every label, in document order.
C22_EdgesThenCirclesThenLabels ==
    \A i, j \in 1..Len(svg.children) :
       i < j =>
          /\ svg.children[j].class = "graph-edge"
                => svg.children[i].class = "graph-edge"
          /\ svg.children[j].class = "graph-node"
                => svg.children[i].class # "graph-label"

\* the label of every node as stored in the graph data
StoredLabels == { <<graphData.nodes[i].id, graphData.nodes[i].label>> :
                     i \in 1..Len(graphData.nodes) }

\* what the claim says the drawn text of a stored label is
ClaimedLabelText(label, type) ==
    IF Len(label) > (IF type = "person" THEN 20 ELSE 15)
    THEN [i \in 1..((IF type = "person" THEN 20 ELSE 15) + 3) |->
             IF i <= (IF type = "person" THEN 20 ELSE 15) THEN label[i] ELSE "."]
    ELSE label

LabelsTruncated ==
    /\ Cardinality({i \in 1..Len(svg.children) :
                       svg.children[i].class = "graph-label"})
          = Len(graphData.nodes)
    /\ \A i \in 1..Len(svg.children) :
          svg.children[i].class = "graph-label" =>
             \E k \in 1..Len(graphData.nodes) :
                /\ attributeString(graphData.nodes[k].id) = svg.children[i].nodeId
                /\ svg.children[i].textContent
                     = ClaimedLabelText(graphData.nodes[k].label,
                                        graphData.nodes[k].type)

\* C23: a drawn label shows the first L characters of the stored label and
\* three dots when the label is longer than L (20 for a person, 15 for any
\* other type) and the whole label otherwise; the stored labels never change.
C23_LabelsTruncatedAtLimit ==
    [][/\ graphData.nodes # << >> => StoredLabels' = StoredLabels
       /\ svg'.drawn => LabelsTruncated']_vars

\* a drawn scene with a label cut at 20, one cut at 15, and labels of exactly
\* 20 and 15 characters shown whole
C23_Witness ==
    /\ svg.drawn
    /\ \A n \in {15, 16, 20, 21} :
          \E k \in 1..Len(graphData.nodes) : Len(graphData.nodes[k].label) = n
    /\ \E i \in 1..Len(svg.children) :
          /\ svg.children[i].class = "graph-label"
          /\ svg.children[i].textContent = LabelOfLength(20) \o <<".", ".", ".">>
    /\ \E i \in 1..Len(svg.children) :
          /\ svg.children[i].class = "graph-label"
          /\ svg.children[i].textContent = LabelOfLength(15) \o <<".", ".", ".">>
    /\ \E i \in 1..Len(svg.children) :
          /\ svg.children[i].class = "graph-label"
          /\ svg.children[i].textContent = LabelOfLength(20)
    /\ \E i \in 1..Len(svg.children) :
          /\ svg.children[i].class = "graph-label"
          /\ svg.children[i].textContent = LabelOfLength(15)

\* the grid cells marked used when node number i of run r is placed
CellsUsedBefore(r, i) ==
    { layoutRuns[r].placements[j].key : j \in 1..(i - 1) }

\* the last position sampled for node number i of run r fell in a free cell
SampledFreeCell(r, i) ==
    << layoutRuns[r].placements[i].sampled.x \div 80,
       layoutRuns[r].placements[i].sampled.y \div 80 >> \notin CellsUsedBefore(r, i)

\* C24: a node gets the fallback position if and only if all 100 sampled
\* positions fell in occupied cells; a node whose sample lands in a free
\* cell on any attempt, the 100th included, keeps the sampled position.
C24_FallbackOnlyAfterHundredCollisions ==
    \A r \in 1..Len(layoutRuns) :
       \A i \in 1..Len(layoutRuns[r].placements) :
          /\ layoutRuns[r].placements[i].fallback
                <=> (layoutRuns[r].placements[i].attempts = 100
                       /\ ~SampledFreeCell(r, i))
          /\ SampledFreeCell(r, i)
                => /\ layoutRuns[r].placements[i].x
                        = layoutRuns[r].placements[i].sampled.x
                   /\ layoutRuns[r].placements[i].y
                        = layoutRuns[r].placements[i].sampled.y

\* the calls of Math.random made for node number i of run r
DrawsFor(r, i) ==
    layoutRuns[r].placements[i].draws
       - (IF i = 1 THEN layoutRuns[r].startDraws
          ELSE layoutRuns[r].placements[i - 1].draws)

\* C25: the layout ends for every input and positions every node, sampling
\* for each node at most 100 tier positions and at most one fallback position.
C25_LayoutEndsWithinBudget ==
    \A r \in 1..Len(layoutRuns) :
       /\ Len(layoutRuns[r].positionedNodes) = Len(graphData.nodes)
       /\ Len(layoutRuns[r].placements) = Len(graphData.nodes)
       /\ \A i \in 1..Len(layoutRuns[r].placements) :
             /\ layoutRuns[r].placements[i].attempts >= 1
             /\ layoutRuns[r].placements[i].attempts <= 100
             /\ DrawsFor(r, i)
                  = 2 * layoutRuns[r].placements[i].attempts
                    + (IF layoutRuns[r].placements[i].fallback THEN 2 ELSE 0)

\* a run over several nodes in which one node is placed at its first attempt
\* and another uses all 100 attempts and the fallback
C25_Witness ==
    \E r \in 1..Len(layoutRuns) :
       /\ Len(layoutRuns[r].placements) >= 3
       /\ \E i \in 1..Len(layoutRuns[r].placements) :
             /\ layoutRuns[r].placements[i].attempts = 1
             /\ DrawsFor(r, i) = 2
       /\ \E i \in 1..Len(layoutRuns[r].placements) :
             /\ layoutRuns[r].placements[i].attempts = 100
             /\ layoutRuns[r].placements[i].fallback
             /\ DrawsFor(r, i) = 202

\* the number of edges in which the node of this id appears as source or as
\* target, an edge counted once
Degree(id) ==
    Cardinality({k \in 1..Len(graphData.edges) :
                    \/ graphData.edges[k].source = id
                    \/ graphData.edges[k].target = id})

\* the square of the distance of the point x, y from the centre of a canvas
SquaredFromCentre(x, y, canvas) ==
    (x - canvas.width \div 2) * (x - canvas.width \div 2)
    + (y - canvas.height \div 2) * (y - canvas.height \div 2)

ShortSide(canvas) ==
    IF canvas.width < canvas.height THEN canvas.width ELSE canvas.height

\* the region the claim gives to a node of this degree: the disc of radius
\* 0.2 of the short side, the ring from 0.25 to 0.4 of it, the padded canvas
InTierRegion(degree, x, y, canvas) ==
    IF degree >= 3
    THEN 25 * SquaredFromCentre(x, y, canvas)
            <= ShortSide(canvas) * ShortSide(canvas)
    ELSE IF degree >= 1
    THEN /\ 16 * SquaredFromCentre(x, y, canvas)
               >= ShortSide(canvas) * ShortSide(canvas)
         /\ 25 * SquaredFromCentre(x, y, canvas)
               <= 4 * ShortSide(canvas) * ShortSide(canvas)
    ELSE /\ 100 <= x /\ x <= canvas.width - 100
         /\ 100 <= y /\ y <= canvas.height - 100

\* C26: every node of degree 3 or more lies within 0.2 of the short side of
\* the canvas centre, every node of degree 1 or 2 between 0.25 and 0.4 of it,
\* and every node of degree 0 inside the canvas padded by 100.
C26_NodesInTierRegion ==
    \A r \in 1..Len(layoutRuns) :
       \A i \in 1..Len(layoutRuns[r].positionedNodes) :
          InTierRegion(Degree(layoutRuns[r].positionedNodes[i].id),
                       layoutRuns[r].positionedNodes[i].x,
                       layoutRuns[r].positionedNodes[i].y,
                       layoutRuns[r].canvas)

\* C27: the count the layout uses for a node is the number of edges in which
\* the node appears as source or target, an edge counted once, and the node
\* is sampled in the tier of that degree: high from 3, medium for 1 and 2,
\* isolated for 0.
C27_DegreeCountsEachEdgeOnce ==
    \A r \in 1..Len(layoutRuns) :
       \A i \in 1..Len(layoutRuns[r].positionedNodes) :
          /\ edgeCountOf(graphData.edges, layoutRuns[r].positionedNodes[i].id)
                = Degree(layoutRuns[r].positionedNodes[i].id)
          /\ InTierRegion(Degree(layoutRuns[r].positionedNodes[i].id),
                          layoutRuns[r].placements[i].sampled.x,
                          layoutRuns[r].placements[i].sampled.y,
                          layoutRuns[r].canvas)

\* the place of the node of this id in the input array
InputIndex(id) ==
    CHOOSE k \in 1..Len(graphData.nodes) : graphData.nodes[k].id = id

\* run r positioned every input node once, by descending degree, nodes of
\* equal degree in the order of the input array
PositionedByDegree(r) ==
    /\ Len(layoutRuns[r].positionedNodes) = Len(graphData.nodes)
    /\ \A k \in 1..Len(graphData.nodes) :
          \E i \in 1..Len(layoutRuns[r].positionedNodes) :
             layoutRuns[r].positionedNodes[i].id = graphData.nodes[k].id
    /\ \A i, j \in 1..Len(layoutRuns[r].positionedNodes) :
          i < j =>
             \/ Degree(layoutRuns[r].positionedNodes[i].id)
                   > Degree(layoutRuns[r].positionedNodes[j].id)
             \/ /\ Degree(layoutRuns[r].positionedNodes[i].id)
                      = Degree(layoutRuns[r].positionedNodes[j].id)
                /\ InputIndex(layoutRuns[r].positionedNodes[i].id)
                      < InputIndex(layoutRuns[r].positionedNodes[j].id)

\* C28: the layout positions the nodes in descending order of degree, nodes
\* of equal degree in their original order, and leaves the input array in
\* its order.
C28_PositionedInStableDegreeOrder ==
    [][layoutRuns' # layoutRuns =>
          /\ graphData' = graphData
          /\ \A r \in 1..Len(layoutRuns') : PositionedByDegree(r)']_vars

\* C29: any two nodes that were both positioned without the fallback are at
\* least 80 units apart.
C29_SampledNodesEightyApart ==
    \A r \in 1..Len(layoutRuns) :
       \A i, j \in 1..Len(layoutRuns[r].positionedNodes) :
          (/\ i # j
           /\ ~layoutRuns[r].placements[i].fallback
           /\ ~layoutRuns[r].placements[j].fallback)
          => (layoutRuns[r].positionedNodes[i].x - layoutRuns[r].positionedNodes[j].x)
               * (layoutRuns[r].positionedNodes[i].x - layoutRuns[r].positionedNodes[j].x)
             + (layoutRuns[r].positionedNodes[i].y - layoutRuns[r].positionedNodes[j].y)
               * (layoutRuns[r].positionedNodes[i].y - layoutRuns[r].positionedNodes[j].y)
             >= 80 * 80

\* the opacity the claim gives to the drawn element el under a non-empty
\* search text: 1 for the circle and label of a visible node, 0.6 for an
\* edge between two visible nodes, 0 for every other element
ClaimedOpacityHolds(el) ==
    IF el.class = "graph-edge"
    THEN \A k \in 1..Len(graphData.edges) :
            (/\ attributeString(graphData.edges[k].source) = el.source
             /\ attributeString(graphData.edges[k].target) = el.target)
            => el.opacity
                 = (IF /\ graphData.edges[k].source \in visibleNodes
                       /\ graphData.edges[k].target \in visibleNodes
                    THEN "0.6" ELSE "0")
    ELSE \A k \in 1..Len(graphData.nodes) :
            attributeString(graphData.nodes[k].id) = el.nodeId
            => el.opacity
                 = (IF graphData.nodes[k].id \in visibleNodes THEN "1" ELSE "0")

\* C30: under a search text that is not empty after trimming, a drawn node
\* and its label have opacity 1 exactly when the node id is visible, a drawn
\* edge has opacity 0.6 exactly when both endpoints are visible, every other
\* element has opacity 0, and a text that matches no node hides everything.
C30_OpacityFollowsVisibleSet ==
    (Idle /\ svg.drawn /\ trim(searchText) # EmptyString) =>
       /\ \A i \in 1..Len(svg.children) : ClaimedOpacityHolds(svg.children[i])
       /\ initiallyMatchingNodes = {} =>
             \A i \in 1..Len(svg.children) : svg.children[i].opacity = "0"

\* a filtered scene with a shown and a hidden node, a shown edge, and a
\* hidden edge of which one endpoint is visible
C30_Witness ==
    /\ Idle /\ svg.drawn /\ trim(searchText) # EmptyString
    /\ \E i, j \in 1..Len(svg.children) :
          /\ svg.children[i].class = "graph-node"
          /\ svg.children[i].opacity = "1"
          /\ svg.children[j].class = "graph-node"
          /\ svg.children[j].opacity = "0"
    /\ \E i, j \in 1..Len(svg.children) :
          /\ svg.children[i].class = "graph-edge"
          /\ svg.children[i].opacity = "0.6"
          /\ svg.children[j].class = "graph-edge"
          /\ svg.children[j].opacity = "0"
          /\ svg.children[j].source \in visibleNodes
          /\ svg.children[j].target \notin visibleNodes

\* the engine's flag and the drawn colours are those of the flag on
\* document.body
ThemeCurrent ==
    /\ isDarkMode = bodyDark
    /\ \A i \in 1..Len(svg.children) :
          /\ svg.children[i].class = "graph-node"
                => svg.children[i].stroke = (IF bodyDark THEN "#000" ELSE "#fff")
          /\ svg.children[i].class = "graph-label"
                => svg.children[i].fill = (IF bodyDark THEN "#fff" ELSE "#333")

\* a step that changes the flag on document.body changes nothing of the engine
FlagWrittenOutside ==
    bodyDark' # bodyDark =>
       /\ isDarkMode' = isDarkMode
       /\ svg' = svg
       /\ staged' = staged
       /\ queue' = queue

\* C31: once the scene is drawn, after every change of the dark-mode class
\* on document.body the engine's isDarkMode, the node strokes and the label
\* fills eventually are those of the current flag (#000 and #fff when dark,
\* #fff and #333 when light), and the engine never writes the flag.
C31_ThemeFollowsBodyFlag ==
    /\ (svg.drawn /\ ~ThemeCurrent) ~> ThemeCurrent
    /\ [][FlagWrittenOutside]_vars

\* a drawn scene recoloured for the dark flag after a toggle
C31_Witness ==
    /\ svg.drawn
    /\ Len(svg.children) > 0
    /\ recoloured
    /\ bodyDark
    /\ ThemeCurrent
    /\ Idle

\* the occupancy-grid cell of the final coordinates of node number i of run r
FinalCell(r, i) ==
    << layoutRuns[r].positionedNodes[i].x \div 80,
       layoutRuns[r].positionedNodes[i].y \div 80 >>

\* C32: on the 1200 x 800 canvas any two nodes positioned without the
\* fallback lie in different grid cells of their final coordinates; only a
\* node placed by the fallback can share a cell with another node.
C32_SampledNodesInDistinctCells ==
    \A r \in 1..Len(layoutRuns) :
       (layoutRuns[r].canvas.width = 1200 /\ layoutRuns[r].canvas.height = 800)
       => \A i, j \in 1..Len(layoutRuns[r].positionedNodes) :
             (i # j /\ FinalCell(r, i) = FinalCell(r, j))
             => \/ layoutRuns[r].placements[i].fallback
                \/ layoutRuns[r].placements[j].fallback

\* a run on the 1200 x 800 canvas with two sampled nodes in neighbouring
\* cells and a node placed by the fallback after 100 attempts
C32_Witness ==
    \E r \in 1..Len(layoutRuns) :
       /\ layoutRuns[r].canvas.width = 1200
       /\ layoutRuns[r].canvas.height = 800
       /\ \E i, j \in 1..Len(layoutRuns[r].positionedNodes) :
             /\ i # j
             /\ ~layoutRuns[r].placements[i].fallback
             /\ ~layoutRuns[r].placements[j].fallback
             /\ FinalCell(r, i)[1] + 1 = FinalCell(r, j)[1]
             /\ FinalCell(r, i)[2] = FinalCell(r, j)[2]
       /\ \E i, j \in 1..Len(layoutRuns[r].positionedNodes) :
             /\ i # j
             /\ layoutRuns[r].placements[j].fallback
             /\ layoutRuns[r].placements[j].attempts = 100

\* the drawn circles of opacity 1 and the drawn lines of an opacity other
\* than 0
RenderedNodes ==
    {i \in 1..Len(svg.children) :
        svg.children[i].class = "graph-node" /\ svg.children[i].opacity = "1"}

RenderedEdges ==
    {i \in 1..Len(svg.children) :
        svg.children[i].class = "graph-edge" /\ svg.children[i].opacity # "0"}

\* C33: whenever the scene is drawn and the component is at rest, the
\* "Showing" statistics are what is rendered: the node count is the number of
\* drawn nodes of opacity 1 and the edge count the number of drawn edges of
\* non-zero opacity, for an empty and for a non-empty search text.
C33_ShowingCountsMatchScene ==
    (Idle /\ svg.drawn) =>
       /\ showingNodes(visibleNodes) = Cardinality(RenderedNodes)
       /\ showingEdges(graphData.edges, visibleNodes) = Cardinality(RenderedEdges)

UserMessages(vc) ==
    Cardinality({i \in 1..Len(vc.messages) : vc.messages[i].role = "user"})
    + Cardinality({i \in 1..Len(vc.staged.messages) :
                      vc.staged.messages[i].role = "user"})

====
